---- MODULE Spec2Model ----
(***************************************************************************)
(* Model of the device-bridge core of VOL20toGenelecGLM (src/bridge2glm.py):*)
(* the GlmController state controller, the action queue and its consumer,   *)
(* the MIDI reader with its power-pattern detector, the start-up sequence   *)
(* and the power-controller resync callback.                                *)
(*                                                                         *)
(* Time is counted in ticks of 0.5 s, the largest unit in which the         *)
(* pattern window (0.5 s), the settling time (2 s), the cooldown (5 s),     *)
(* the start-up window (3 s) and the maximum event age (2 s) are whole      *)
(* numbers.  Timestamps lie on that grid, so the minimum pattern span       *)
(* (0.05 s) separates "same instant" (span 0) from "one tick apart".        *)
(*                                                                         *)
(* The program uses its clock only in differences time.time() - stamp, and  *)
(* compares no difference with more than the total lockout.  The model      *)
(* therefore keeps the reading of the clock fixed and lets a tick move      *)
(* every recorded time stamp one tick into the past, down to the oldest     *)
(* stamp the program can tell from a still older one.                       *)
(***************************************************************************)
EXTENDS Integers, Sequences, FiniteSets, TLC

(* ------------------------------ bounds --------------------------------- *)
\* Total number of external inputs: commands submitted, single echoes,
\* signature bursts begun, resync callbacks, admission queries.
MaxInputs == 2

(* ------------------------- program constants --------------------------- *)
MAX_EVENT_AGE == 4
POWER_SETTLING_TIME == 4
POWER_COOLDOWN_TIME == 10
POWER_TOTAL_LOCKOUT == POWER_SETTLING_TIME + POWER_COOLDOWN_TIME
POWER_PATTERN_WINDOW == 1
POWER_PATTERN_MIN_SPAN == 1
POWER_STARTUP_WINDOW == 6
QUEUE_MAX_SIZE == 100
VOLUME_MAX == 127

GLM_VOLUME_ABS == 20
GLM_VOL_UP_CC == 21
GLM_VOL_DOWN_CC == 22
GLM_MUTE_CC == 23
GLM_DIM_CC == 24
POWER_PATTERN == <<GLM_MUTE_CC, GLM_VOLUME_ABS, GLM_DIM_CC, GLM_MUTE_CC, GLM_VOLUME_ABS>>

(* ------------------------------ inputs --------------------------------- *)
\* Volume values the application echoes on CC 20.
EchoVolumes == {1, 126}
\* Values the application reports for mute and dim.
ToggleValues == {0, 127}
\* Relative steps submitted by the knob and the REST adapter.
Deltas == {-3, 3}
\* Absolute targets submitted by the MQTT adapter (unvalidated integers).
Targets == {-5, 200}

(* ------------------------------ helpers -------------------------------- *)
\* Python's Optional: None is the empty tuple, a value v is <<v>>.
None == <<>>
Some(v) == <<v>>
Min(a, b) == IF a < b THEN a ELSE b
Max(a, b) == IF a > b THEN a ELSE b

VARIABLES
  glm_controller,  \* the module-level GlmController instance
  queue,           \* HIDToMIDIDaemon.queue
  consumer,        \* the consumer thread: position and locals
  reader,          \* the MIDI reader thread: position and message in hand
  daemon,          \* HIDToMIDIDaemon fields used by the reader and the handlers
  main,            \* position of start()
  app,             \* the application: messages of a signature burst emitted
  glm_manager,     \* the GlmManager object and the position of its watchdog thread
  glm,             \* the application's process as the operating system shows it
  inputs,          \* number of external inputs so far
  ev               \* what the last step did

vars ==
  <<glm_controller, queue, consumer, reader, daemon, main, app,
    glm_manager, glm, inputs, ev>>

(* ========================= GlmController ================================ *)
\* Every method is a function of the controller record c (and the clock t)
\* that yields the controller record after the call.

GlmControllerInit ==
  [ volume |-> 0, pending_volume |-> None, mute |-> FALSE, dim |-> FALSE,
    power |-> TRUE, volume_initialized |-> FALSE,
    last_notified_state |-> None,
    power_transition_start |-> 0, power_settling |-> FALSE,
    power_target |-> None, state_callbacks |-> << >> ]

\* A registered state callback: whether it raises when called, and the
\* snapshot it was called with last.
Subscriber(raises) == [raises |-> raises, received |-> None]

\* start(): the callback that logs every snapshot; it does not raise.
log_state_change == Subscriber(FALSE)

\* add_state_callback
add_state_callback(c, callback) ==
  [c EXCEPT !.state_callbacks = Append(@, callback)]

\* get_state: the snapshot handed to subscribers.  round(x, 1) leaves the
\* remaining times unchanged: they are multiples of 0.5 s.
get_state(c, t) ==
  LET started == c.power_transition_start > 0
      elapsed == t - c.power_transition_start
      settling == started /\ elapsed < POWER_SETTLING_TIME
      cooldown == started /\ ~(elapsed < POWER_SETTLING_TIME)
                          /\ elapsed < POWER_TOTAL_LOCKOUT
  IN [ volume |-> c.volume,
       volume_db |-> c.volume - VOLUME_MAX,
       mute |-> c.mute,
       dim |-> c.dim,
       power |-> c.power,
       power_transitioning |-> c.power_settling,
       power_settling_remaining |->
           IF settling THEN POWER_SETTLING_TIME - elapsed ELSE 0,
       power_cooldown |-> cooldown,
       power_cooldown_remaining |->
           IF cooldown THEN POWER_TOTAL_LOCKOUT - elapsed ELSE 0 ]

\* A variant of NotifyDelivers without the debounce.
NotifyDeliversAlways(c, force, t) == TRUE

\* _notify_state_change: is the snapshot handed to the callbacks?
NotifyDelivers(c, force, t) ==
  force \/ Some(get_state(c, t)) # c.last_notified_state

\* A variant of Called without the try/except: the first exception ends
\* the loop.
CalledUntilRaise(callbacks, i) ==
  \A j \in 1..(i - 1) : ~callbacks[j].raises

\* _notify_state_change: is the i-th callback called?  Each call is wrapped
\* in try/except Exception, so the loop goes on after a callback raised.
Called(callbacks, i) == TRUE

\* _notify_state_change: the loop over the callbacks with the snapshot.
Deliver(callbacks, state) ==
  [i \in 1..Len(callbacks) |->
     IF Called(callbacks, i)
       THEN [callbacks[i] EXCEPT !.received = Some(state)]
       ELSE callbacks[i]]

\* _notify_state_change: the controller afterwards.
notify_state_change(c, force, t) ==
  IF NotifyDelivers(c, force, t)
    THEN [c EXCEPT !.last_notified_state = Some(get_state(c, t)),
                   !.state_callbacks = Deliver(@, get_state(c, t))]
    ELSE c

\* How a call of _notify_state_change(force) on c ends.
NotifyOutcome(c, force, t) ==
  IF ~NotifyDelivers(c, force, t) THEN "debounced"
  ELSE IF force THEN "forced" ELSE "normal"

start_power_transition(c, target_state, t) ==
  notify_state_change(
    [c EXCEPT !.power_transition_start = t,
              !.power_settling = TRUE,
              !.power_target = Some(target_state)],
    TRUE, t)

\* A variant of EndPowerValue that takes the outcome over whether or not the
\* actuator succeeded.
EndPowerValueAlways(c, success, actual_state) ==
  IF actual_state # None THEN actual_state[1]
  ELSE IF c.power_target # None THEN c.power_target[1]
  ELSE c.power

\* The power value end_power_transition leaves.
EndPowerValue(c, success, actual_state) ==
  IF success /\ actual_state # None THEN actual_state[1]
  ELSE IF success /\ c.power_target # None THEN c.power_target[1]
  ELSE c.power

\* A variant of EndSettlingValue that leaves the flag as it is.
EndSettlingKept(c) == c.power_settling

\* Is _power_settling set after end_power_transition?
EndSettlingValue(c) == FALSE

end_power_transition(c, success, actual_state, t) ==
  notify_state_change(
    [c EXCEPT !.power_settling = EndSettlingValue(c),
              !.power = EndPowerValue(c, success, actual_state),
              !.power_target = None],
    TRUE, t)

\* is_power_settling: <<result, controller afterwards>>.
is_power_settling(c, t) ==
  IF ~c.power_settling THEN <<FALSE, c>>
  ELSE IF t - c.power_transition_start >= POWER_SETTLING_TIME
    THEN <<FALSE, [c EXCEPT !.power_settling = FALSE]>>
    ELSE <<TRUE, c>>

\* The results (allowed, wait_time, reason) of the admission queries.
Verdict(allowed, wait, reason) ==
  [allowed |-> allowed, wait |-> wait, reason |-> reason]

\* can_accept_command: the tuple it returns.
can_accept_command(c, t) ==
  LET elapsed == t - c.power_transition_start
  IN IF ~c.power_settling THEN Verdict(TRUE, 0, "None")
     ELSE IF elapsed < POWER_SETTLING_TIME
       THEN Verdict(FALSE, POWER_SETTLING_TIME - elapsed, "power_settling")
       ELSE Verdict(TRUE, 0, "None")

\* can_accept_command: the controller afterwards (it ends an overdue
\* settling period itself).
after_can_accept_command(c, t) ==
  IF c.power_settling /\ ~(t - c.power_transition_start < POWER_SETTLING_TIME)
    THEN [c EXCEPT !.power_settling = FALSE]
    ELSE c

\* A variant of can_accept_power_command without the cooldown.
CanAcceptPowerSettlingOnly(c, t) ==
  LET elapsed == t - c.power_transition_start
  IN IF c.power_transition_start # 0 /\ elapsed < POWER_SETTLING_TIME
       THEN Verdict(FALSE, POWER_SETTLING_TIME - elapsed, "power_settling")
       ELSE Verdict(TRUE, 0, "None")

\* can_accept_power_command: the tuple it returns (it changes nothing).
can_accept_power_command(c, t) ==
  LET elapsed == t - c.power_transition_start
  IN IF c.power_transition_start = 0 THEN Verdict(TRUE, 0, "None")
     ELSE IF elapsed < POWER_TOTAL_LOCKOUT
       THEN IF elapsed < POWER_SETTLING_TIME
              THEN Verdict(FALSE, POWER_TOTAL_LOCKOUT - elapsed, "power_settling")
              ELSE Verdict(FALSE, POWER_TOTAL_LOCKOUT - elapsed, "power_cooldown")
       ELSE Verdict(TRUE, 0, "None")

\* A variant of get_volume_if_valid that does not test volume_initialized.
get_volume_unchecked(c) ==
  IF c.pending_volume # None THEN c.pending_volume ELSE Some(c.volume)

\* A variant of get_volume_if_valid that looks at the pending volume first.
get_volume_pending_first(c) ==
  IF c.pending_volume # None THEN c.pending_volume
  ELSE IF ~c.volume_initialized THEN None
  ELSE Some(c.volume)

\* get_volume_if_valid: None, or the effective (pending or confirmed) volume.
get_volume_if_valid(c) ==
  IF ~c.volume_initialized THEN None
  ELSE IF c.pending_volume # None THEN c.pending_volume
  ELSE Some(c.volume)

get_effective_volume(c) ==
  IF c.pending_volume # None THEN c.pending_volume[1] ELSE c.volume

set_pending_volume(c, target) == [c EXCEPT !.pending_volume = Some(target)]

\* A variant of UpdateForce that forces every volume notification.
UpdateForceAlways(c, cc, value) == cc = GLM_VOLUME_ABS

\* update_from_midi: force_notify.
UpdateForce(c, cc, value) ==
  /\ cc = GLM_VOLUME_ABS
  /\ c.pending_volume # None
  /\ c.pending_volume # Some(value)

\* update_from_midi: notify.
UpdateNotify(c, cc, value) ==
  \/ cc = GLM_VOLUME_ABS
  \/ cc = GLM_MUTE_CC /\ c.mute # (value > 0)
  \/ cc = GLM_DIM_CC /\ c.dim # (value > 0)

\* A variant of UpdateFields in which a volume echo keeps pending_volume.
UpdateFieldsKeepPending(c, cc, value) ==
  IF cc = GLM_VOLUME_ABS
    THEN [c EXCEPT !.volume_initialized = TRUE, !.volume = value]
  ELSE IF cc = GLM_MUTE_CC THEN [c EXCEPT !.mute = (value > 0)]
  ELSE IF cc = GLM_DIM_CC THEN [c EXCEPT !.dim = (value > 0)]
  ELSE c

\* update_from_midi: the fields after the locked block.
UpdateFields(c, cc, value) ==
  IF cc = GLM_VOLUME_ABS
    THEN [c EXCEPT !.volume_initialized = TRUE,
                   !.pending_volume = None,
                   !.volume = value]
  ELSE IF cc = GLM_MUTE_CC THEN [c EXCEPT !.mute = (value > 0)]
  ELSE IF cc = GLM_DIM_CC THEN [c EXCEPT !.dim = (value > 0)]
  ELSE c

\* update_from_midi: the value it returns (changed).
UpdateChanged(c, cc, value) ==
  \/ cc = GLM_VOLUME_ABS /\ c.volume # value
  \/ cc = GLM_MUTE_CC /\ c.mute # (value > 0)
  \/ cc = GLM_DIM_CC /\ c.dim # (value > 0)

update_from_midi(c, cc, value, t) ==
  IF UpdateNotify(c, cc, value)
    THEN notify_state_change(UpdateFields(c, cc, value),
                             UpdateForce(c, cc, value), t)
    ELSE UpdateFields(c, cc, value)

\* send_volume_absolute: the clamp of the target to the MIDI range.
ClampVolume(target) == Max(0, Min(VOLUME_MAX, target))

\* send_volume_absolute: the messages put on the channel; a failing send
\* (OSError) is caught inside and puts nothing.
send_volume_absolute(target, sendOk) ==
  IF sendOk THEN << <<GLM_VOLUME_ABS, ClampVolume(target)>> >> ELSE << >>

\* send_action for the toggle controls Mute and Dim and the momentary
\* controls Vol+ and Vol-.
SendActionValue(c, action, explicit_state) ==
  IF action \in {"Mute", "Dim"}
    THEN LET current == IF action = "Mute" THEN c.mute ELSE c.dim
         IN IF explicit_state = None
              THEN (IF current THEN 0 ELSE 127)
              ELSE (IF explicit_state[1] THEN 127 ELSE 0)
    ELSE 127

ActionCC(action) ==
  CASE action = "VolUp" -> GLM_VOL_UP_CC
    [] action = "VolDown" -> GLM_VOL_DOWN_CC
    [] action = "Mute" -> GLM_MUTE_CC
    [] action = "Dim" -> GLM_DIM_CC

send_action(c, action, explicit_state, sendOk) ==
  IF sendOk
    THEN << <<ActionCC(action), SendActionValue(c, action, explicit_state)>> >>
    ELSE << >>

(* ============================ events ==================================== *)
\* ev describes the step just taken: the operation, the command it handled
\* and its kind, the messages it put on the channel, how its notification
\* ended, what an actuator call returned, the verdict of an admission query,
\* and the arguments of the controller method called (cc and value, success
\* and actual, and the target the transition had when it was ended).
NoEv ==
  [ op |-> "init", cmd |-> 0, kind |-> "none", sent |-> << >>,
    notif |-> "none", read |-> "none", allowed |-> TRUE, reason |-> "None",
    success |-> FALSE, cc |-> 0, value |-> 0, actual |-> None,
    target |-> None, button |-> 0 ]

Ev(op) == [NoEv EXCEPT !.op = op]

(* ============================ commands ================================== *)
AdjustVolume(delta) == [kind |-> "AdjustVolume", arg |-> delta]
SetVolume(target) == [kind |-> "SetVolume", arg |-> target]
SetMute(state) == [kind |-> "SetMute", arg |-> state]
SetDim(state) == [kind |-> "SetDim", arg |-> state]
SetPower(state) == [kind |-> "SetPower", arg |-> state]

QueuedAction(id, action, timestamp) ==
  [id |-> id, action |-> action, timestamp |-> timestamp]

\* What the adapters submit.
Commands ==
  {AdjustVolume(d) : d \in Deltas} \cup {SetVolume(x) : x \in Targets}
  \cup {SetMute(None), SetDim(Some(TRUE))}
  \cup {SetPower(s) : s \in {None, Some(FALSE)}}

\* What the power actuator's get_state yields: a state, or an exception.
ReadResults == {"on", "off", "unknown", "error"}
\* How the power actuator's set_state ends: it returns, or raises
\* GlmStateUnknownError, GlmWindowNotFoundError or GlmStateChangeFailedError.
SetResults == {"ok", "state_unknown", "window_not_found", "change_failed"}

(* ======================= AccelerationHandler ============================ *)
\* The time stamps handed to calculate_speed are counted in units of 0.05 s,
\* in which the default click times (0.2 s, 0.15 s) are whole numbers.
min_click == 4
max_per_click_avg == 3
\* The default acceleration curve.
volume_increases_list == <<1, 1, 2, 2, 3>>
\* Curves the argument parser accepts (2 to 15 integers between 1 and 10):
\* the default, two other non-decreasing ones and one that decreases.
Curves == {volume_increases_list, <<2, 3>>, <<1, 3, 3>>, <<2, 1>>}
\* The keys bound to Vol+ and Vol-.
KEY_VOL_UP == 2
KEY_VOL_DOWN == 1

AccelerationHandlerInit(volume_list) ==
  [ volume_increases_list |-> volume_list, len |-> Len(volume_list),
    last_button |-> 0, last_time |-> 0, first_time |-> 0,
    distance |-> 0, count |-> 1, delta_time |-> 0 ]

\* calculate_speed: why the run is reset, in the order the conditions are
\* evaluated; "None" if the run goes on.  avg_step_time is
\* (current_time - first_time) / count: it exceeds max_per_click_avg exactly
\* if current_time - first_time exceeds max_per_click_avg * count, and it is
\* infinite if count is not positive.
KnobResetReason(k, current_time, button) ==
  IF k.last_button # button THEN "button"
  ELSE IF k.count <= 0 THEN "avg"
  ELSE IF current_time - k.first_time > max_per_click_avg * k.count THEN "avg"
  ELSE IF current_time - k.last_time > min_click THEN "gap"
  ELSE "None"

\* A variant of KnobReset that does not look at the running average.
KnobResetNoAverage(k, current_time, button) ==
  \/ k.last_button # button
  \/ current_time - k.last_time > min_click

\* calculate_speed: the condition of the reset.
KnobReset(k, current_time, button) ==
  KnobResetReason(k, current_time, button) # "None"

\* A variant of KnobDistance that starts the curve again at its end.
KnobDistanceWrapped(k) ==
  k.volume_increases_list[((k.count - 1) % k.len) + 1]

\* calculate_speed: the step of a call that continues the run; Python's
\* volume_increases_list[count - 1] is the count-th element.
KnobDistance(k) ==
  IF k.count <= k.len
    THEN k.volume_increases_list[k.count]
    ELSE k.volume_increases_list[k.len]

\* calculate_speed: the handler afterwards; it returns the new distance.
calculate_speed(k, current_time, button) ==
  IF KnobReset(k, current_time, button)
    THEN [k EXCEPT !.delta_time = current_time - k.last_time,
                   !.distance = 1, !.count = 1,
                   !.first_time = current_time,
                   !.last_button = button, !.last_time = current_time]
    ELSE [k EXCEPT !.delta_time = current_time - k.last_time,
                   !.distance = KnobDistance(k), !.count = @ + 1,
                   !.last_button = button, !.last_time = current_time]

(* ============================ GlmManager ================================ *)
\* GlmManagerConfig.max_non_responsive: checks before the kill.
max_non_responsive == 6

\* The application's process as the operating system shows it: its pid
\* (0: no such process), the last pid given out, whether its window is hung
\* and whether it is minimized.
GlmNotRunning ==
  [pid |-> 0, last_pid |-> 0, hung |-> FALSE, minimized |-> FALSE,
   volume_requests |-> << >>]

GlmProcess(pid, minimized) ==
  [pid |-> pid, last_pid |-> pid, hung |-> FALSE, minimized |-> minimized,
   volume_requests |-> << >>]

\* The application's side of the MIDI port: volume_requests holds the values
\* of the absolute-volume messages put on the port and not yet answered.
Transmit(g, sent) ==
  LET requests == SelectSeq(sent, LAMBDA m : m[1] = GLM_VOLUME_ABS)
  IN [g EXCEPT !.volume_requests =
        @ \o [i \in 1..Len(requests) |-> requests[i][2]]]

\* GlmManager.__init__; process 0 is None.  pc is the position of the
\* watchdog thread: at the top of its loop ("check"), or in _restart_glm
\* before the callback ("callback") or before minimize ("minimize").
\* slept tells whether the loop reached its top through the sleep of
\* watchdog_interval at its bottom (or for the first time) and not through
\* a "continue".
\* wait holds the locals of _wait_for_window_stable (last_handle,
\* stable_count), its position (pc: "idle", "poll" or "done"), the value it
\* returned (result) and the outcomes of the polls it made so far (seen).
GlmManagerInit ==
  [process |-> 0, non_responsive_count |-> 0, running |-> FALSE, pc |-> "check",
   slept |-> TRUE,
   wait |-> [pc |-> "idle", last_handle |-> 0, stable_count |-> 0,
             seen |-> << >>, result |-> 0]]

\* GlmManager.start() found or started the process pid and started the
\* watchdog thread.
GlmManagerStarted(pid) ==
  [GlmManagerInit EXCEPT !.process = pid, !.running = TRUE]

\* is_alive: <<result, manager afterwards>>.  A dead cached process is
\* forgotten and the process list is searched.
is_alive(m, g) ==
  IF m.process # 0 /\ g.pid = m.process THEN <<TRUE, m>>
  ELSE IF g.pid # 0 THEN <<TRUE, [m EXCEPT !.process = g.pid]>>
  ELSE <<FALSE, [m EXCEPT !.process = 0]>>

\* is_responding: IsHungAppWindow on the process's window.
is_responding(m, g) == IF m.process = 0 THEN FALSE ELSE ~g.hung

\* _kill_glm: the process found by name is killed; killed = FALSE if
\* proc.kill() or proc.wait() raised.
kill_glm(g, killed) ==
  IF g.pid # 0 /\ killed THEN [g EXCEPT !.pid = 0, !.hung = FALSE] ELSE g

\* _start_glm: exe tells whether the executable exists, launched whether
\* Popen succeeded, survived whether the process still runs at the end.
\* A process found by name is reused.
start_glm(m, g, exe, launched, survived) ==
  IF ~exe \/ (g.pid = 0 /\ ~launched)
    THEN [success |-> FALSE, m |-> m, g |-> g]
    ELSE LET pid == IF g.pid # 0 THEN g.pid ELSE g.last_pid + 1
             g1 == IF g.pid # 0 THEN g ELSE GlmProcess(pid, FALSE)
             m1 == [m EXCEPT !.process = pid]
         IN IF survived
              THEN [success |-> TRUE, m |-> m1, g |-> g1]
              ELSE [success |-> FALSE, m |-> m1,
                    g |-> [g1 EXCEPT !.pid = 0, !.hung = FALSE]]

\* A variant of RestartCallbacks that calls back after every attempt.
RestartCallbacksAlways(success, m) == TRUE

\* _restart_glm: is the reinit callback called?  (The daemon registers one.)
RestartCallbacks(success, m) == success /\ m.process # 0

\* A variant of StreakAfterMiss that does not count.
StreakAfterMissStuck(m) == m.non_responsive_count

\* _watchdog_loop: the streak after a check that found the window hung.
StreakAfterMiss(m) == m.non_responsive_count + 1

(* ======================= HIDToMIDIDaemon ================================ *)
DaemonInit(available, manager, constructed) ==
  [ midi_output |-> "None",
    rx_seq |-> << >>,
    last_pattern_time |-> None,
    suppress_power_pattern |-> FALSE,
    power_control_available |-> available,
    glm_manager |-> manager,
    watchdog |-> FALSE,
    power_controller |-> available /\ ~manager /\ constructed,
    volume_knob |-> AccelerationHandlerInit(volume_increases_list) ]

ConsumerIdle ==
  [ pc |-> "idle", id |-> 0, action |-> None, target_state |-> FALSE, transition_start |-> 0,
    success |-> FALSE, wake |-> 0 ]

\* The protocol reader between two messages; seq, old_power and
\* actual_state are the locals of its loop body.
ReaderWait ==
  [pc |-> "wait", cc |-> 0, value |-> 0, seq |-> << >>, old_power |-> FALSE,
   actual_state |-> "none"]

Init ==
  /\ glm_controller = GlmControllerInit
  /\ queue = << >>
  /\ consumer = ConsumerIdle
  /\ reader = ReaderWait
  /\ \E available \in BOOLEAN, manager \in BOOLEAN, constructed \in BOOLEAN :
       daemon = DaemonInit(available, manager, constructed)
  /\ main = "start"
  /\ app = 0
  /\ glm_manager = GlmManagerInit
  /\ glm = GlmNotRunning
  /\ inputs = 0
  /\ ev = NoEv

\* time.time() at the step being taken.  0 is the stamp "never" of
\* _power_transition_start; every real stamp lies in 1..now.
now == POWER_TOTAL_LOCKOUT + 1

\* A time stamp one tick later: one tick further in the past.  It stops at
\* now - horizon when the program compares its age with nothing larger than
\* horizon: all older stamps behave alike.
Past(stamp, horizon) ==
  IF stamp = 0 THEN 0 ELSE Max(stamp - 1, Min(stamp, now - horizon))

\* The clock advances by one tick.  The horizons are the largest ages the
\* program tells apart: the total lockout (can_accept_power_command and
\* get_state), MAX_EVENT_AGE (consumer), the settling time (the handler's
\* elapsed), 0 for the end of the handler's sleep, the pattern window
\* (midi_reader's filter) and the start-up window (the fallback).
\* One iteration of the reader's loop takes less than a tick, the
\* actuator's read aside: the clock stands between the pattern detector and
\* update_from_midi.
Tick ==
  /\ reader.pc \in {"wait", "get_state"}
  /\ glm_controller' =
       [glm_controller EXCEPT
          !.power_transition_start = Past(@, POWER_TOTAL_LOCKOUT)]
  /\ queue' = [i \in 1..Len(queue) |->
                 [queue[i] EXCEPT !.timestamp = Past(@, MAX_EVENT_AGE + 1)]]
  /\ consumer' =
       [consumer EXCEPT
          !.transition_start = Past(@, POWER_SETTLING_TIME),
          !.wake = Past(@, 0)]
  /\ daemon' =
       [daemon EXCEPT
          !.rx_seq = [i \in 1..Len(@) |->
                        <<Past(@[i][1], POWER_PATTERN_WINDOW + 1), @[i][2]>>],
          !.last_pattern_time =
             IF @ = None THEN None ELSE Some(Past(@[1], POWER_STARTUP_WINDOW))]
  /\ ev' = Ev("tick")
  /\ UNCHANGED <<reader, main, app, glm_manager, glm, inputs>>

\* The power value after a read of the actuator by the start-up sync and by
\* _reinit_power_controller: only "on" and "off" are taken over.
SyncPower(power, state) ==
  IF state \in {"on", "off"} THEN (state = "on") ELSE power

\* _reinit_power_controller: ctor tells whether GlmPowerController(...) was
\* constructed; if it raised, the handler ends without a read.
reinit_power_controller(d, ctor) ==
  IF d.power_control_available /\ ctor
    THEN [d EXCEPT !.power_controller = TRUE]
    ELSE d

\* start(): GlmManager.start() and the resync, or the power sync from the UI.
StartSync ==
  /\ main = "start"
  /\ \E started \in BOOLEAN, ctor \in BOOLEAN, state \in ReadResults :
       LET resync == daemon.glm_manager /\ started
           d1 == IF resync THEN reinit_power_controller(daemon, ctor) ELSE daemon
           reads == IF daemon.glm_manager
                      THEN resync /\ daemon.power_control_available /\ ctor
                      ELSE daemon.power_controller
       IN /\ daemon' = [d1 EXCEPT !.watchdog = resync]
          /\ glm_manager' =
               IF resync THEN GlmManagerStarted(1) ELSE glm_manager
          /\ glm' = IF resync THEN GlmProcess(1, FALSE) ELSE glm
          /\ glm_controller' =
               add_state_callback(
                 IF reads
                   THEN [glm_controller EXCEPT
                           !.power = SyncPower(glm_controller.power, state)]
                   ELSE glm_controller,
                 log_state_change)
          /\ ev' = [Ev("start_sync") EXCEPT
                      !.read = IF reads THEN state ELSE "none"]
  /\ main' = "init_volume"
  /\ UNCHANGED <<queue, consumer, reader, app, inputs>>

\* The watchdog restarted the application and calls the resync callback.
Reinit ==
  /\ main # "start"
  /\ daemon.watchdog
  /\ inputs < MaxInputs
  /\ \E ctor \in BOOLEAN, state \in ReadResults :
       LET reads == daemon.power_control_available /\ ctor
       IN /\ daemon' = reinit_power_controller(daemon, ctor)
          /\ glm_controller' =
               IF reads
                 THEN [glm_controller EXCEPT
                         !.power = SyncPower(glm_controller.power, state)]
                 ELSE glm_controller
          /\ ev' = [Ev("reinit") EXCEPT
                      !.read = IF reads THEN state ELSE "none"]
  /\ inputs' = inputs + 1
  /\ UNCHANGED <<queue, consumer, reader, main, app, glm_manager, glm>>

\* _initialize_glm_volume: the wait for the MIDI output ends when
\* _get_midi_output opens the port.
InitVolumeConnect ==
  /\ main = "init_volume"
  /\ daemon' = [daemon EXCEPT !.midi_output = "open"]
  /\ main' = "init_wait"
  /\ ev' = Ev("init_connect")
  /\ UNCHANGED <<glm_controller, queue, consumer, reader, app, glm_manager, glm, inputs>>

\* _initialize_glm_volume: pattern detection is suppressed and either the
\* start-up volume or the Vol+ / Vol- query is sent.
InitVolumeBegin ==
  /\ main = "init_wait"
  /\ daemon' = [daemon EXCEPT !.suppress_power_pattern = TRUE]
  /\ \E startup_volume \in {None} \cup {Some(x) : x \in Targets},
        ok1 \in BOOLEAN, ok2 \in BOOLEAN :
       ev' = [Ev("init_volume") EXCEPT !.sent =
                IF startup_volume # None
                  THEN send_volume_absolute(startup_volume[1], ok1)
                  ELSE send_action(glm_controller, "VolUp", None, ok1)
                       \o send_action(glm_controller, "VolDown", None, ok2)]
  /\ glm' = Transmit(glm, ev'.sent)
  /\ main' = "handshake"
  /\ UNCHANGED <<glm_controller, queue, consumer, reader, app, glm_manager, inputs>>

\* _initialize_glm_volume: the finally block; the remaining threads start.
InitVolumeEnd ==
  /\ main = "handshake"
  /\ daemon' = [daemon EXCEPT !.rx_seq = << >>,
                              !.suppress_power_pattern = FALSE]
  /\ main' = "running"
  /\ ev' = Ev("init_done")
  /\ UNCHANGED <<glm_controller, queue, consumer, reader, app, glm_manager, glm, inputs>>

(* --------------------------- midi_reader -------------------------------- *)
\* The buffer after the append and the filter on the time window.
FilterWindow(rx, t) == SelectSeq(rx, LAMBDA e : t - e[1] <= POWER_PATTERN_WINDOW)

Controls(rx) == [i \in 1..Len(rx) |-> rx[i][2]]

\* The last five identifiers are the signature.
PatternMatched(rx) ==
  /\ Len(rx) >= 5
  /\ SubSeq(Controls(rx), Len(rx) - 4, Len(rx)) = POWER_PATTERN

\* A variant of PatternAccepted without the test of the time span.
PatternAcceptedAnySpan(rx) == PatternMatched(rx)

\* ... and they are not a buffer dump.
PatternAccepted(rx) ==
  /\ PatternMatched(rx)
  /\ rx[Len(rx)][1] - rx[Len(rx) - 4][1] >= POWER_PATTERN_MIN_SPAN

\* state_updated: the actuator gave a usable state.
StateUpdated(d, state) == d.power_controller /\ state \in {"on", "off"}

\* A variant of StartupBurst that never takes a burst for the start-up.
StartupBurstNever(d, t) == FALSE

\* The fallback takes the burst for the application's start-up.
StartupBurst(d, t) ==
  /\ d.last_pattern_time # None
  /\ t - d.last_pattern_time[1] < POWER_STARTUP_WINDOW

\* The power value after an accepted pattern.
PatternPower(c, d, rx, state, t) ==
  IF StateUpdated(d, state) THEN (state = "on")
  ELSE IF Len(rx) = 5
    THEN (IF StartupBurst(d, t) THEN TRUE ELSE ~c.power)
    ELSE c.power

\* _last_pattern_time after an accepted pattern.
PatternTime(d, rx, state, t) ==
  IF StateUpdated(d, state) THEN d.last_pattern_time
  ELSE IF Len(rx) = 5 /\ StartupBurst(d, t) THEN None
  ELSE Some(t)

\* A variant of PatternIgnored that looks at the handshake only.
PatternIgnoredSuppressOnly(c, d, t) == d.suppress_power_pattern

\* An accepted pattern is ignored during the volume handshake and while
\* power commands are locked out.
PatternIgnored(c, d, t) ==
  d.suppress_power_pattern \/ ~can_accept_power_command(c, t).allowed

\* The loop body of midi_reader up to update_from_midi, for a control
\* change (cc, value); state is what the actuator returns if it is read,
\* and seq is the buffer the filter reads.
Receive(cc, value, state, seq) ==
  LET rx == FilterWindow(Append(seq, <<now, cc>>), now)
      p == PatternPower(glm_controller, daemon, rx, state, now)
      c1 == [glm_controller EXCEPT !.power = p]
      changed == p # glm_controller.power
  IN IF ~PatternAccepted(rx)
       THEN /\ daemon' = [daemon EXCEPT !.rx_seq = rx]
            /\ reader' = [ReaderWait EXCEPT !.pc = "update", !.cc = cc, !.value = value]
            /\ ev' = [Ev("rx") EXCEPT !.cc = cc, !.value = value]
            /\ UNCHANGED glm_controller
     ELSE IF PatternIgnored(glm_controller, daemon, now)
       THEN /\ daemon' = [daemon EXCEPT !.rx_seq = << >>]
            /\ reader' = ReaderWait
            /\ ev' = [Ev("rx_pattern_ignored") EXCEPT !.cc = cc, !.value = value,
                        !.reason = IF daemon.suppress_power_pattern
                                     THEN "suppressed" ELSE "lockout"]
            /\ UNCHANGED glm_controller
     ELSE /\ daemon' = [daemon EXCEPT
                          !.rx_seq = << >>,
                          !.last_pattern_time = PatternTime(daemon, rx, state, now)]
          /\ glm_controller' =
               IF changed THEN notify_state_change(c1, FALSE, now) ELSE c1
          /\ reader' = [ReaderWait EXCEPT !.pc = "update", !.cc = cc, !.value = value]
          /\ ev' = [Ev("rx_pattern") EXCEPT !.cc = cc, !.value = value,
                      !.read = IF daemon.power_controller THEN state ELSE "none",
                      !.notif = IF changed THEN NotifyOutcome(c1, FALSE, now)
                                           ELSE "none"]

ValuesOf(cc) == IF cc = GLM_VOLUME_ABS THEN EchoVolumes ELSE ToggleValues

\* The values the application reports in its signature burst.
BurstValue(cc) == IF cc = GLM_VOLUME_ABS THEN 1 ELSE 0

\* The application echoes one control change.
MidiEcho(cc, value) ==
  /\ main # "start"
  /\ reader.pc = "wait"
  /\ inputs < MaxInputs
  /\ inputs' = inputs + 1
  /\ \E state \in ReadResults : Receive(cc, value, state, daemon.rx_seq)
  /\ UNCHANGED <<queue, consumer, main, app, glm_manager, glm>>

\* The application answers the oldest absolute-volume message on its port
\* with an echo of the value.
EchoRequest ==
  /\ main # "start"
  /\ reader.pc = "wait"
  /\ glm.volume_requests # << >>
  /\ glm' = [glm EXCEPT !.volume_requests = Tail(@)]
  /\ \E state \in ReadResults :
       Receive(GLM_VOLUME_ABS, Head(glm.volume_requests), state,
               daemon.rx_seq)
  /\ UNCHANGED <<queue, consumer, main, app, glm_manager, inputs>>

\* The application emits the next message of its five-message signature.
MidiBurst ==
  /\ main # "start"
  /\ reader.pc = "wait"
  /\ app > 0 \/ inputs < MaxInputs
  /\ inputs' = IF app = 0 THEN inputs + 1 ELSE inputs
  /\ app' = (app + 1) % 5
  /\ \E state \in ReadResults :
       Receive(POWER_PATTERN[app + 1], BurstValue(POWER_PATTERN[app + 1]),
               state, daemon.rx_seq)
  /\ UNCHANGED <<queue, consumer, main, glm_manager, glm>>

\* "Process state update": update_from_midi for the message in hand.
MidiUpdate ==
  /\ reader.pc = "update"
  /\ glm_controller' = update_from_midi(glm_controller, reader.cc, reader.value, now)
  /\ reader' = ReaderWait
  /\ ev' = [Ev("update_from_midi") EXCEPT
              !.cc = reader.cc, !.value = reader.value,
              !.success = UpdateChanged(glm_controller, reader.cc, reader.value),
              !.notif =
                IF UpdateNotify(glm_controller, reader.cc, reader.value)
                  THEN NotifyOutcome(
                         UpdateFields(glm_controller, reader.cc, reader.value),
                         UpdateForce(glm_controller, reader.cc, reader.value), now)
                  ELSE "none"]
  /\ UNCHANGED <<queue, consumer, daemon, main, app, glm_manager, glm, inputs>>

(* The loop body of midi_reader takes no lock: the steps below are the
   places at which another thread can run in the middle of it. *)
\* The application emits the next message of its signature; the reader
\* appends it to the buffer in place and its filter reads the buffer.
BurstAppend ==
  /\ main # "start"
  /\ reader.pc = "wait"
  /\ app > 0 \/ inputs < MaxInputs
  /\ inputs' = IF app = 0 THEN inputs + 1 ELSE inputs
  /\ app' = (app + 1) % 5
  /\ daemon' = [daemon EXCEPT
                  !.rx_seq = Append(@, <<now, POWER_PATTERN[app + 1]>>)]
  /\ reader' = [ReaderWait EXCEPT
                  !.pc = "filter",
                  !.cc = POWER_PATTERN[app + 1],
                  !.value = BurstValue(POWER_PATTERN[app + 1]),
                  !.seq = daemon.rx_seq]
  /\ ev' = [Ev("rx_append") EXCEPT !.cc = POWER_PATTERN[app + 1],
                                   !.value = BurstValue(POWER_PATTERN[app + 1])]
  /\ UNCHANGED <<glm_controller, queue, consumer, main, glm_manager, glm>>

\* The filtered list is assigned to _rx_seq and the loop body goes on, the
\* actuator answering at once if it is read.
BurstFilter ==
  /\ reader.pc = "filter"
  /\ \E state \in ReadResults :
       Receive(reader.cc, reader.value, state, reader.seq)
  /\ UNCHANGED <<queue, consumer, main, app, glm_manager, glm, inputs>>

\* The same up to the call of the actuator's get_state, which takes its
\* time: the match was accepted and admitted, old_power was read.
DetectRead ==
  /\ reader.pc = "filter"
  /\ daemon.power_controller
  /\ LET rx == FilterWindow(Append(reader.seq, <<now, reader.cc>>), now)
     IN /\ PatternAccepted(rx)
        /\ ~PatternIgnored(glm_controller, daemon, now)
        /\ daemon' = [daemon EXCEPT !.rx_seq = rx]
  /\ \E state \in {"on", "off"} :
       /\ reader' = [reader EXCEPT !.pc = "get_state", !.seq = << >>,
                                   !.old_power = glm_controller.power,
                                   !.actual_state = state]
       /\ ev' = [Ev("rx_get_state") EXCEPT !.cc = reader.cc,
                                           !.value = reader.value,
                                           !.read = state]
  /\ UNCHANGED <<glm_controller, queue, consumer, main, app, glm_manager, glm,
                 inputs>>

\* get_state has returned "on" or "off": power is written, the change is
\* notified and the buffer is cleared.
DetectWrite ==
  /\ reader.pc = "get_state"
  /\ LET c1 == [glm_controller EXCEPT !.power = (reader.actual_state = "on")]
         changed == c1.power # reader.old_power
     IN /\ glm_controller' =
             IF changed THEN notify_state_change(c1, FALSE, now) ELSE c1
        /\ ev' = [Ev("rx_write") EXCEPT
                    !.cc = reader.cc, !.value = reader.value,
                    !.read = reader.actual_state,
                    !.notif = IF changed THEN NotifyOutcome(c1, FALSE, now)
                                         ELSE "none"]
  /\ daemon' = [daemon EXCEPT !.rx_seq = << >>]
  /\ reader' = [ReaderWait EXCEPT !.pc = "update", !.cc = reader.cc,
                                  !.value = reader.value]
  /\ UNCHANGED <<queue, consumer, main, app, glm_manager, glm, inputs>>

\* A variant of Enqueue that puts the command at the head of the queue.
EnqueueFront(a) ==
  /\ main = "running"
  /\ inputs < MaxInputs
  /\ Len(queue) < QUEUE_MAX_SIZE
  /\ queue' = <<QueuedAction(inputs + 1, a, now)>> \o queue
  /\ inputs' = inputs + 1
  /\ ev' = [Ev("enqueue") EXCEPT !.cmd = inputs + 1, !.kind = a.kind]
  /\ UNCHANGED <<glm_controller, consumer, reader, daemon, main, app, glm_manager, glm>>

(* ------------------------- input adapters ------------------------------- *)
\* HID reader and MQTT adapter: put the action on the queue.
Enqueue(a) ==
  /\ main = "running"
  /\ inputs < MaxInputs
  /\ Len(queue) < QUEUE_MAX_SIZE
  /\ queue' = Append(queue, QueuedAction(inputs + 1, a, now))
  /\ inputs' = inputs + 1
  /\ ev' = [Ev("enqueue") EXCEPT !.cmd = inputs + 1, !.kind = a.kind]
  /\ UNCHANGED <<glm_controller, consumer, reader, daemon, main, app, glm_manager, glm>>

\* REST adapter: the admission query, then the put (the volume clamped).
RestAction(a) ==
  IF a.kind = "SetVolume" THEN SetVolume(ClampVolume(a.arg)) ELSE a

RestSubmit(a) ==
  /\ main = "running"
  /\ inputs < MaxInputs
  /\ Len(queue) < QUEUE_MAX_SIZE
  /\ LET v == IF a.kind = "SetPower"
                THEN can_accept_power_command(glm_controller, now)
                ELSE can_accept_command(glm_controller, now)
     IN /\ glm_controller' =
             IF a.kind = "SetPower" THEN glm_controller
             ELSE after_can_accept_command(glm_controller, now)
        /\ queue' =
             IF v.allowed
               THEN Append(queue, QueuedAction(inputs + 1, RestAction(a), now))
               ELSE queue
        /\ ev' = [Ev("rest") EXCEPT
                    !.cmd = IF v.allowed THEN inputs + 1 ELSE 0,
                    !.kind = a.kind,
                    !.allowed = v.allowed, !.reason = v.reason]
  /\ inputs' = inputs + 1
  /\ UNCHANGED <<consumer, reader, daemon, main, app, glm_manager, glm>>

(* ----------------------------- consumer --------------------------------- *)
\* A variant of IsStale that lets every action through.
IsStaleNever(queued, t) == FALSE

\* The staleness test on a dequeued action.
IsStale(queued, t) == t - queued.timestamp > MAX_EVENT_AGE

\* The admission verdict for a dequeued action.
Admission(c, action, t) ==
  IF action.kind = "SetPower"
    THEN can_accept_power_command(c, t)
    ELSE can_accept_command(c, t)

\* The controller after the admission query.
AfterAdmission(c, action, t) ==
  IF action.kind = "SetPower" THEN c ELSE after_can_accept_command(c, t)

\* A variant of QueueAfterDrop that puts the action back for a retry.
QueueAfterDropRetry(q) == Append(Tail(q), Head(q))

\* The queue after a rejected or stale action: it is dropped ("continue").
QueueAfterDrop(q) == Tail(q)

\* A variant of AdjustTarget without the clamp.
AdjustTargetUnclamped(current, delta) == current + delta

\* _handle_adjust_volume: the target computed from the effective volume.
AdjustTarget(current, delta) == Max(0, Min(VOLUME_MAX, current + delta))

\* _handle_set_volume: the target after the handler's own clamp.
SetTarget(target) == Max(0, Min(VOLUME_MAX, target))

\* A variant of PowerTarget in which a toggle asks for the tracked state.
PowerTargetSame(c, action) == IF action.arg = None THEN c.power ELSE action.arg[1]

\* _handle_power_action: the target state.
PowerTarget(c, action) == IF action.arg = None THEN ~c.power ELSE action.arg[1]

\* Does a failing midi_output.send reach the handler as an OSError?
\* send_volume_absolute and send_action catch (OSError, IOError) themselves
\* and return False, and the handlers do not look at the returned value.
SendRaises(sendOk) == FALSE

\* _get_midi_output: a port that is not open is opened, if it can be.
get_midi_output(d, opened) ==
  IF d.midi_output = "None" /\ opened
    THEN [d EXCEPT !.midi_output = "open"]
    ELSE d

\* The positions of start() and stop() at which the consumer thread runs:
\* it is started at the end of start() and is not joined by stop().
ConsumerRuns == {"running", "stopping", "closing", "stopped"}

\* stop(): the None that ends the consumer's loop.
Sentinel == QueuedAction(0, [kind |-> "None", arg |-> None], 0)

\* _reset_midi_output: the cached port is closed and forgotten.
reset_midi_output(d) == [d EXCEPT !.midi_output = "None"]

\* The handlers' "except (OSError, IOError)" around the send: _rx_seq is
\* cleared (clear = TRUE) after a volume send that did not raise.
AfterSend(d, sendOk, clear) ==
  IF SendRaises(sendOk) THEN reset_midi_output(d)
  ELSE IF clear THEN [d EXCEPT !.rx_seq = << >>]
  ELSE d

\* One turn of the consumer loop: get, staleness, admission and dispatch.
\* A SetPower that is dispatched runs up to start_power_transition and the
\* reading of transition_start; the handler then goes on in ConsumerPrecheck.
ConsumerGet ==
  /\ main \in ConsumerRuns
  /\ consumer.pc = "idle"
  /\ queue # << >>
  /\ Head(queue) # Sentinel
  /\ LET queued == Head(queue)
         action == queued.action
         verdict == Admission(glm_controller, action, now)
         c0 == AfterAdmission(glm_controller, action, now)
         base == [Ev("dispatch") EXCEPT !.cmd = queued.id, !.kind = action.kind]
     IN IF IsStale(queued, now)
          THEN /\ queue' = QueueAfterDrop(queue)
               /\ ev' = [base EXCEPT !.op = "stale"]
               /\ UNCHANGED <<glm_controller, consumer, daemon>>
        ELSE IF ~verdict.allowed
          THEN /\ queue' = QueueAfterDrop(queue)
               /\ glm_controller' = c0
               /\ ev' = [base EXCEPT !.op = "reject", !.allowed = FALSE,
                                     !.reason = verdict.reason]
               /\ UNCHANGED <<consumer, daemon>>
        ELSE /\ queue' = Tail(queue)
             /\ \E sendOk \in BOOLEAN, opened \in BOOLEAN :
                  LET d0 == get_midi_output(daemon, opened) IN
                  IF action.kind # "SetPower" /\ d0.midi_output = "None"
                    THEN /\ glm_controller' = c0
                         /\ daemon' = d0
                         /\ ev' = [base EXCEPT !.op = "no_port"]
                         /\ UNCHANGED consumer
                  ELSE
                  CASE action.kind = "SetVolume" ->
                         LET target == SetTarget(action.arg)
                         IN /\ glm_controller' = set_pending_volume(c0, target)
                            /\ daemon' = AfterSend(d0, sendOk, TRUE)
                            /\ ev' = [base EXCEPT !.op = "set_volume",
                                  !.sent = send_volume_absolute(target, sendOk)]
                            /\ UNCHANGED consumer
                    [] action.kind = "AdjustVolume" ->
                         LET current == get_volume_if_valid(c0)
                             target == AdjustTarget(current[1], action.arg)
                         IN IF current # None /\ target # current[1]
                              THEN /\ glm_controller' = set_pending_volume(c0, target)
                                   /\ daemon' = AfterSend(d0, sendOk, TRUE)
                                   /\ ev' = [base EXCEPT !.op = "adjust_volume",
                                         !.sent = send_volume_absolute(target, sendOk)]
                                   /\ UNCHANGED consumer
                            ELSE IF current # None
                              THEN /\ glm_controller' = c0
                                   /\ ev' = [base EXCEPT !.op = "adjust_at_limit"]
                                   /\ daemon' = d0
                                   /\ UNCHANGED consumer
                            ELSE /\ glm_controller' = c0
                                 /\ ev' = [base EXCEPT !.op = "adjust_native",
                                       !.sent = send_action(c0,
                                           IF action.arg > 0 THEN "VolUp" ELSE "VolDown",
                                           None, sendOk)]
                                 /\ daemon' = AfterSend(d0, sendOk, FALSE)
                                 /\ UNCHANGED consumer
                    [] action.kind \in {"SetMute", "SetDim"} ->
                         /\ glm_controller' = c0
                         /\ ev' = [base EXCEPT !.op = "toggle",
                               !.sent = send_action(c0,
                                   IF action.kind = "SetMute" THEN "Mute" ELSE "Dim",
                                   None, sendOk)]
                         /\ daemon' = AfterSend(d0, sendOk, FALSE)
                         /\ UNCHANGED consumer
                    [] action.kind = "SetPower" ->
                         IF ~daemon.power_controller
                           THEN /\ glm_controller' = c0
                                /\ ev' = [base EXCEPT !.op = "power_unavailable"]
                                /\ UNCHANGED <<consumer, daemon>>
                           ELSE LET target == PowerTarget(c0, action)
                                IN /\ glm_controller' =
                                        start_power_transition(c0, target, now)
                                   /\ consumer' = [ConsumerIdle EXCEPT
                                        !.pc = "precheck", !.id = queued.id,
                                        !.action = Some(action),
                                        !.target_state = target,
                                        !.transition_start = now]
                                   /\ ev' = [base EXCEPT !.op = "power_start",
                                         !.notif = "forced"]
                                   /\ UNCHANGED daemon
  /\ glm' = Transmit(glm, ev'.sent)
  /\ UNCHANGED <<reader, main, app, glm_manager, inputs>>

\* How ensure_session_connected ends: it returns True or False, or an
\* exception leaves it (get_current_session_id calls the operating system
\* outside any try).
PrecheckResults == {"connected", "failed", "raises"}

\* A variant of ConsumerPrecheck in which an exception of the pre-check
\* ends the consumer's loop.
ConsumerPrecheckFatal ==
  /\ consumer.pc = "precheck"
  /\ consumer' = [ConsumerIdle EXCEPT !.pc = "exited"]
  /\ ev' = [Ev("power_abandoned") EXCEPT
              !.cmd = consumer.id, !.kind = "SetPower"]
  /\ UNCHANGED <<glm_controller, queue, reader, daemon, main, app,
                 glm_manager, glm, inputs>>

\* _handle_power_action: ensure_session_connected returns; on failure the
\* transition is ended at once.  An exception leaves the handler and is
\* caught and logged by the consumer's loop, which goes on.
ConsumerPrecheck ==
  /\ consumer.pc = "precheck"
  /\ \E result \in PrecheckResults :
       CASE result = "connected" ->
              /\ consumer' = [consumer EXCEPT !.pc = "set_state"]
              /\ ev' = [Ev("power_precheck") EXCEPT
                          !.cmd = consumer.id, !.kind = "SetPower",
                          !.success = TRUE]
              /\ UNCHANGED glm_controller
         [] result = "failed" ->
              /\ glm_controller' =
                   end_power_transition(glm_controller, FALSE, None, now)
              /\ consumer' = ConsumerIdle
              /\ ev' = [Ev("power_end") EXCEPT
                          !.cmd = consumer.id, !.kind = "SetPower",
                          !.target = glm_controller.power_target,
                          !.reason = "precheck", !.notif = "forced"]
         [] result = "raises" ->
              /\ consumer' = ConsumerIdle
              /\ ev' = [Ev("power_abandoned") EXCEPT
                          !.cmd = consumer.id, !.kind = "SetPower"]
              /\ UNCHANGED glm_controller
  /\ UNCHANGED <<queue, reader, daemon, main, app, glm_manager, glm, inputs>>

\* The wake-up time of the settling wait computed when set_state is back.
SettleWake(transition_start, t) ==
  IF t - transition_start < POWER_SETTLING_TIME
    THEN t + (POWER_SETTLING_TIME - (t - transition_start))
    ELSE t

\* _handle_power_action: set_state returns or raises; the handler computes
\* the remaining settling time and sleeps.
ConsumerSetState ==
  /\ consumer.pc = "set_state"
  /\ \E result \in SetResults :
       /\ consumer' = [consumer EXCEPT
                         !.pc = "sleep",
                         !.success = (result = "ok"),
                         !.wake = SettleWake(consumer.transition_start, now)]
       /\ ev' = [Ev("power_set_state") EXCEPT
                   !.cmd = consumer.id, !.kind = "SetPower",
                   !.read = result, !.success = (result = "ok")]
  /\ UNCHANGED <<glm_controller, queue, reader, daemon, main, app, glm_manager, glm, inputs>>

\* _handle_power_action: the sleep is over; end_power_transition.
ConsumerEnd ==
  /\ consumer.pc = "sleep"
  /\ now >= consumer.wake
  /\ LET actual == IF consumer.success THEN Some(consumer.target_state) ELSE None
     IN /\ glm_controller' =
             end_power_transition(glm_controller, consumer.success, actual, now)
        /\ ev' = [Ev("power_end") EXCEPT
                    !.cmd = consumer.id, !.kind = "SetPower",
                    !.success = consumer.success, !.actual = actual,
                    !.target = glm_controller.power_target,
                    !.reason = "settled", !.notif = "forced"]
  /\ consumer' = ConsumerIdle
  /\ UNCHANGED <<queue, reader, daemon, main, app, glm_manager, glm, inputs>>

Next ==
  \/ Tick
  \/ StartSync
  \/ Reinit
  \/ InitVolumeConnect
  \/ InitVolumeBegin
  \/ InitVolumeEnd
  \/ \E cc \in {GLM_VOLUME_ABS, GLM_MUTE_CC, GLM_DIM_CC} :
       \E value \in ValuesOf(cc) : MidiEcho(cc, value)
  \/ MidiBurst
  \/ MidiUpdate
  \/ \E a \in Commands : Enqueue(a)
  \/ \E a \in Commands : RestSubmit(a)
  \/ ConsumerGet
  \/ ConsumerPrecheck
  \/ ConsumerSetState
  \/ ConsumerEnd

Spec == Init /\ [][Next]_vars

(* ===================== the controller's methods called alone ============ *)
\* Callers outside the daemon's threads (the REST and MQTT adapters, tests)
\* call the controller's methods directly, in any order, on any state.
PendingTargets == {1, 90}
CallNotches == {GLM_VOLUME_ABS, GLM_MUTE_CC, GLM_DIM_CC, GLM_VOL_UP_CC}

CallUpdateFromMidi ==
  /\ \E cc \in CallNotches :
       \E value \in (IF cc = GLM_VOLUME_ABS THEN {1, 90} ELSE ToggleValues) :
         /\ glm_controller' = update_from_midi(glm_controller, cc, value, now)
         /\ ev' = [Ev("update_from_midi") EXCEPT
                     !.cc = cc, !.value = value,
                     !.success = UpdateChanged(glm_controller, cc, value),
                     !.notif =
                       IF UpdateNotify(glm_controller, cc, value)
                         THEN NotifyOutcome(
                                UpdateFields(glm_controller, cc, value),
                                UpdateForce(glm_controller, cc, value), now)
                         ELSE "none"]
  /\ UNCHANGED <<queue, consumer, reader, daemon, main, app, glm_manager, glm, inputs>>

CallSetPendingVolume ==
  /\ \E target \in PendingTargets :
       /\ glm_controller' = set_pending_volume(glm_controller, target)
       /\ ev' = [Ev("set_pending_volume") EXCEPT !.value = target]
  /\ UNCHANGED <<queue, consumer, reader, daemon, main, app, glm_manager, glm, inputs>>

CallStartPowerTransition ==
  /\ \E target_state \in BOOLEAN :
       /\ glm_controller' =
            start_power_transition(glm_controller, target_state, now)
       /\ ev' = [Ev("power_start") EXCEPT !.kind = "SetPower",
                                         !.notif = "forced"]
  /\ UNCHANGED <<queue, consumer, reader, daemon, main, app, glm_manager, glm, inputs>>

CallEndPowerTransition ==
  /\ \E success \in BOOLEAN, actual_state \in {None, Some(TRUE), Some(FALSE)} :
       /\ glm_controller' =
            end_power_transition(glm_controller, success, actual_state, now)
       /\ ev' = [Ev("power_end") EXCEPT
                   !.kind = "SetPower", !.success = success,
                   !.actual = actual_state,
                   !.target = glm_controller.power_target,
                   !.reason = "call",
                   !.notif = NotifyOutcome(
                     [glm_controller EXCEPT
                        !.power_settling = EndSettlingValue(glm_controller),
                        !.power = EndPowerValue(glm_controller, success,
                                                actual_state),
                        !.power_target = None], TRUE, now)]
  /\ UNCHANGED <<queue, consumer, reader, daemon, main, app, glm_manager, glm, inputs>>

CallCanAcceptCommand ==
  /\ glm_controller' = after_can_accept_command(glm_controller, now)
  /\ ev' = [Ev("can_accept_command") EXCEPT
              !.allowed = can_accept_command(glm_controller, now).allowed,
              !.reason = can_accept_command(glm_controller, now).reason]
  /\ UNCHANGED <<queue, consumer, reader, daemon, main, app, glm_manager, glm, inputs>>

CallCanAcceptPowerCommand ==
  /\ ev' = [Ev("can_accept_power_command") EXCEPT
              !.allowed = can_accept_power_command(glm_controller, now).allowed,
              !.reason = can_accept_power_command(glm_controller, now).reason]
  /\ UNCHANGED <<glm_controller, queue, consumer, reader, daemon, main,
                 app, glm_manager, glm, inputs>>

NextCtl ==
  \/ CallUpdateFromMidi
  \/ CallSetPendingVolume
  \/ CallStartPowerTransition
  \/ CallEndPowerTransition
  \/ CallCanAcceptCommand
  \/ CallCanAcceptPowerCommand

SpecCtl == Init /\ [][NextCtl]_vars

(* ====================== the daemon after start() ======================== *)
\* start() has returned: the power state was synchronised (or left at its
\* default), the MIDI output is open, the handshake window is over and all
\* threads run.  The handshake was not answered: the volume is not known yet.
\* Without a power controller nothing was read and power has its default.
Running(manager) ==
  \E constructed \in BOOLEAN, power \in BOOLEAN :
    /\ constructed \/ power
    /\ glm_controller =
         add_state_callback([GlmControllerInit EXCEPT !.power = power],
                            log_state_change)
    /\ queue = << >>
    /\ consumer = ConsumerIdle
    /\ reader = ReaderWait
    /\ daemon = [DaemonInit(TRUE, manager, constructed) EXCEPT
                   !.midi_output = "open",
                   !.watchdog = manager,
                   !.power_controller = constructed]
    /\ main = "running"
    /\ app = 0
    /\ glm_manager = IF manager THEN GlmManagerStarted(1) ELSE GlmManagerInit
    /\ glm = GlmProcess(1, manager)
    /\ inputs = 0
    /\ ev = Ev("init_done")

\* The application was started by the user, not by the daemon's manager.
InitRunning == Running(FALSE)

\* Volume commands of both adapters against the application's echoes.
VolumeCommands ==
  {AdjustVolume(d) : d \in Deltas} \cup {SetVolume(x) : x \in Targets}

NextVolume ==
  \/ \E a \in VolumeCommands : Enqueue(a)
  \/ \E a \in VolumeCommands : RestSubmit(a)
  \/ \E value \in EchoVolumes : MidiEcho(GLM_VOLUME_ABS, value)
  \/ MidiUpdate
  \/ ConsumerGet

SpecVolume == InitRunning /\ [][NextVolume]_vars

\* Power commands, and a volume and a mute command, against the clock.
PowerCommands ==
  {SetPower(None), SetPower(Some(FALSE)), SetVolume(200), SetMute(None)}

NextPower ==
  \/ Tick
  \/ \E a \in PowerCommands : Enqueue(a)
  \/ \E a \in PowerCommands : RestSubmit(a)
  \/ ConsumerGet
  \/ ConsumerPrecheck
  \/ ConsumerSetState
  \/ ConsumerEnd

SpecPower == InitRunning /\ [][NextPower]_vars

\* The reader with the application's echoes and signature bursts, and the
\* resync after a restart of the application by the manager's watchdog.
InitReader == \E manager \in BOOLEAN : Running(manager)

NextReader ==
  \/ Tick
  \/ Reinit
  \/ \E cc \in {GLM_VOLUME_ABS, GLM_MUTE_CC, GLM_DIM_CC} :
       \E value \in ValuesOf(cc) : MidiEcho(cc, value)
  \/ MidiBurst
  \/ MidiUpdate

SpecReader == InitReader /\ [][NextReader]_vars

\* The reader from the start of the daemon on: the start-up sequence with
\* the volume handshake, the application's signature bursts, and power
\* commands with their lockout.
NextDetect ==
  \/ Tick
  \/ StartSync
  \/ InitVolumeConnect
  \/ InitVolumeBegin
  \/ InitVolumeEnd
  \/ MidiBurst
  \/ MidiUpdate
  \/ Enqueue(SetPower(None))
  \/ ConsumerGet
  \/ ConsumerPrecheck
  \/ ConsumerSetState
  \/ ConsumerEnd

\* The daemon as constructed when the user runs the application and the
\* power controller could be set up.
InitDetect ==
  /\ glm_controller = GlmControllerInit
  /\ queue = << >>
  /\ consumer = ConsumerIdle
  /\ reader = ReaderWait
  /\ daemon = DaemonInit(TRUE, FALSE, TRUE)
  /\ main = "start"
  /\ app = 0
  /\ glm_manager = GlmManagerInit
  /\ glm = GlmNotRunning
  /\ inputs = 0
  /\ ev = NoEv

SpecDetect == InitDetect /\ [][NextDetect]_vars

(* ========================== the watchdog ================================ *)
\* Process ids given out by the operating system.
MaxPid == 3

\* The application's process exits.
AppDies ==
  /\ glm.pid # 0
  /\ inputs < MaxInputs
  /\ glm' = [glm EXCEPT !.pid = 0, !.hung = FALSE]
  /\ inputs' = inputs + 1
  /\ ev' = Ev("app_dies")
  /\ UNCHANGED <<glm_controller, queue, consumer, reader, daemon, main, app,
                 glm_manager>>

\* The application's window stops responding, or responds again.
AppHangs ==
  /\ glm.pid # 0
  /\ inputs < MaxInputs
  /\ glm' = [glm EXCEPT !.hung = ~@]
  /\ inputs' = inputs + 1
  /\ ev' = Ev("app_hangs")
  /\ UNCHANGED <<glm_controller, queue, consumer, reader, daemon, main, app,
                 glm_manager>>

\* _restart_glm up to the callback, on manager m and process g.
Restart(m, g, cause, exe, launched, survived) ==
  LET s == start_glm(m, g, exe, launched, survived)
  IN /\ s.g.last_pid <= MaxPid
     /\ glm' = s.g
     /\ glm_manager' =
          IF RestartCallbacks(s.success, s.m)
            THEN [s.m EXCEPT !.pc = "callback", !.slept = FALSE]
            ELSE [s.m EXCEPT !.non_responsive_count = 0, !.slept = FALSE]
     /\ ev' = [Ev("watchdog_restart") EXCEPT
                 !.reason = cause, !.success = s.success,
                 !.value = s.m.process]

\* One turn of _watchdog_loop: is_alive, is_responding, and the kill and
\* the restart up to the callback.  A turn without a restart ends with the
\* sleep of watchdog_interval; a turn with one ends with "continue".
WatchdogCheck ==
  /\ glm_manager.running
  /\ glm_manager.pc = "check"
  /\ \E exe \in BOOLEAN, launched \in BOOLEAN, survived \in BOOLEAN,
        killed \in BOOLEAN :
       LET alive == is_alive(glm_manager, glm)
           m0 == alive[2]
           m1 == [m0 EXCEPT !.non_responsive_count = StreakAfterMiss(m0)]
       IN IF ~alive[1]
            THEN Restart(m0, glm, "dead", exe, launched, survived)
          ELSE IF ~is_responding(m0, glm)
            THEN IF m1.non_responsive_count >= max_non_responsive
                   THEN Restart(m1, kill_glm(glm, killed), "hung",
                                exe, launched, survived)
                   ELSE /\ glm_manager' = [m1 EXCEPT !.slept = TRUE]
                        /\ ev' = [Ev("watchdog_check") EXCEPT
                                    !.read = "not_responding"]
                        /\ UNCHANGED glm
          ELSE /\ glm_manager' = [m0 EXCEPT !.non_responsive_count = 0,
                                            !.slept = TRUE]
               /\ ev' = [Ev("watchdog_check") EXCEPT !.read = "responding"]
               /\ UNCHANGED glm
  /\ UNCHANGED <<glm_controller, queue, consumer, reader, daemon, main, app,
                 inputs>>

\* _restart_glm: reinit_callback(pid), the daemon's
\* _reinit_power_controller; it minimizes the window itself after a read
\* that did not raise.
WatchdogCallback ==
  /\ glm_manager.pc = "callback"
  /\ \E ctor \in BOOLEAN, state \in ReadResults :
       LET reads == daemon.power_control_available /\ ctor
       IN /\ daemon' = reinit_power_controller(daemon, ctor)
          /\ glm_controller' =
               IF reads
                 THEN [glm_controller EXCEPT
                         !.power = SyncPower(glm_controller.power, state)]
                 ELSE glm_controller
          /\ glm' = [glm EXCEPT !.minimized =
                       IF reads /\ state # "error" /\ glm.pid # 0
                         THEN TRUE ELSE @]
          /\ ev' = [Ev("watchdog_callback") EXCEPT
                      !.value = glm_manager.process,
                      !.read = IF reads THEN state ELSE "none"]
  /\ glm_manager' = [glm_manager EXCEPT !.pc = "minimize"]
  /\ UNCHANGED <<queue, consumer, reader, main, app, inputs>>

\* _restart_glm: minimize() and the reset of the streak.
WatchdogMinimize ==
  /\ glm_manager.pc = "minimize"
  /\ glm' = [glm EXCEPT !.minimized = IF glm.pid # 0 THEN TRUE ELSE @]
  /\ glm_manager' = [glm_manager EXCEPT !.non_responsive_count = 0,
                                        !.pc = "check"]
  /\ ev' = Ev("watchdog_minimize")
  /\ UNCHANGED <<glm_controller, queue, consumer, reader, daemon, main, app,
                 inputs>>

\* The daemon runs with its manager; the watchdog supervises the application.
InitWatchdog == Running(TRUE)

NextWatchdog ==
  \/ AppDies
  \/ AppHangs
  \/ WatchdogCheck
  \/ WatchdogCallback
  \/ WatchdogMinimize

SpecWatchdog == InitWatchdog /\ [][NextWatchdog]_vars

(* ====================== the knob's acceleration ========================= *)
\* hid_reader hands every Vol+ / Vol- report to calculate_speed together
\* with time.time().  Later reports carry later time stamps; the gaps range
\* from one unit to just above min_click.
MaxKnobTime == 10
Gaps == 1..(min_click + 1)

CallCalculateSpeed ==
  /\ \E button \in {KEY_VOL_UP, KEY_VOL_DOWN}, gap \in Gaps :
       LET k == daemon.volume_knob
           current_time == k.last_time + gap
       IN /\ current_time <= MaxKnobTime
          /\ daemon' = [daemon EXCEPT
                          !.volume_knob = calculate_speed(k, current_time, button)]
          /\ ev' = [Ev("calculate_speed") EXCEPT
                      !.button = button,
                      !.value = calculate_speed(k, current_time, button).distance,
                      !.reason = KnobResetReason(k, current_time, button)]
  /\ UNCHANGED <<glm_controller, queue, consumer, reader, main, app, glm_manager, glm, inputs>>

\* The daemon runs with any curve the argument parser accepts.
InitKnob ==
  \E volume_list \in Curves :
    /\ glm_controller = add_state_callback(GlmControllerInit, log_state_change)
    /\ queue = << >>
    /\ consumer = ConsumerIdle
    /\ reader = ReaderWait
    /\ daemon = [DaemonInit(TRUE, FALSE, TRUE) EXCEPT
                   !.midi_output = "open",
                   !.volume_knob = AccelerationHandlerInit(volume_list)]
    /\ main = "running"
    /\ app = 0
    /\ glm_manager = GlmManagerInit
    /\ glm = GlmProcess(1, FALSE)
    /\ inputs = 0
    /\ ev = Ev("init_done")

NextKnob == CallCalculateSpeed

SpecKnob == InitKnob /\ [][NextKnob]_vars

(* ============================ properties ================================ *)
\* The operations that put a non-power command's message on the channel.
SendOps == {"set_volume", "adjust_volume", "adjust_native", "toggle"}

\* The steps in which can_accept_power_command was asked about a power
\* command: the REST adapter's query and the consumer's admission.
PowerQueryOps == {"rest", "reject", "power_start", "power_unavailable"}

\* C1: every absolute-volume (CC 20) value put on the channel lies in
\* 0..127, and pending_volume, whenever it is set, lies in 0..127, for all
\* volume commands of both adapters and all interleavings with echoes.
C1_VolumeInRange ==
  /\ \A i \in 1..Len(ev.sent) :
       ev.sent[i][1] = GLM_VOLUME_ABS => ev.sent[i][2] \in 0..VOLUME_MAX
  /\ glm_controller.pending_volume # None =>
       glm_controller.pending_volume[1] \in 0..VOLUME_MAX

\* C1 happens: with the volume known to be 126, a step of +3 was sent as 127.
C1_Witness ==
  /\ ev.op = "adjust_volume"
  /\ glm_controller.volume_initialized
  /\ glm_controller.volume = 126
  /\ ev.sent = << <<GLM_VOLUME_ABS, VOLUME_MAX>> >>
  /\ glm_controller.pending_volume = Some(VOLUME_MAX)

\* C2: update_from_midi(CC 20, v) leaves volume = v, pending_volume = None
\* and volume_initialized = TRUE whatever the state before, and its
\* notification is forced exactly when pending_volume was set and was not v.
C2_UpdateVolume ==
  [][ (ev'.op = "update_from_midi" /\ ev'.cc = GLM_VOLUME_ABS) =>
        /\ glm_controller'.volume = ev'.value
        /\ glm_controller'.pending_volume = None
        /\ glm_controller'.volume_initialized
        /\ (ev'.notif = "forced") <=>
             (/\ glm_controller.pending_volume # None
              /\ glm_controller.pending_volume # Some(ev'.value)) ]_vars

\* C2 happens: an echo that differs from the pending request was taken over
\* and notified with force.
C2_Witness ==
  /\ ev.op = "update_from_midi"
  /\ ev.cc = GLM_VOLUME_ABS
  /\ ev.notif = "forced"
  /\ glm_controller.volume = ev.value
  /\ glm_controller.pending_volume = None

\* C3 (as claimed): in every state in which _power_settling is set,
\* can_accept_command returns allowed = FALSE, and no message of a non-power
\* command has just been sent.
C3_SettlingExclusivity ==
  glm_controller.power_settling =>
    /\ ~can_accept_command(glm_controller, now).allowed
    /\ ev.op \notin SendOps

\* C4 (as claimed): on every path through the power handler,
\* end_power_transition is not called before transition_start + settling
\* time, and can_accept_command does not return allowed = TRUE before
\* _power_transition_start + settling time.
C4_FullSettlingWindow ==
  [][ /\ ev'.op = "power_end" =>
           now - consumer.transition_start >= POWER_SETTLING_TIME
      /\ (/\ glm_controller'.power_transition_start # 0
          /\ now - glm_controller'.power_transition_start < POWER_SETTLING_TIME)
           => ~can_accept_command(glm_controller', now).allowed ]_vars

\* C5: asked at time t after a transition started at T, can_accept_power_command
\* returns allowed = FALSE while t < T + settling + cooldown, with reason
\* "power_settling" while t < T + settling and "power_cooldown" afterwards,
\* however the transition ended; it returns allowed = TRUE before any
\* transition and from T + settling + cooldown on; so the consumer starts no
\* transition within the lockout of the one before.
C5_PowerLockout ==
  [][ (ev'.kind = "SetPower" /\ ev'.op \in PowerQueryOps) =>
        LET T == glm_controller.power_transition_start
            locked == T # 0 /\ now - T < POWER_SETTLING_TIME + POWER_COOLDOWN_TIME
        IN /\ ev'.allowed = ~locked
           /\ locked =>
                ev'.reason = IF now - T < POWER_SETTLING_TIME
                               THEN "power_settling" ELSE "power_cooldown"
           /\ ev'.op = "power_start" => ~locked ]_vars

\* C5 happens: a power command was rejected in the cooldown of a transition
\* that had already ended.
C5_Witness ==
  /\ ev.op = "reject"
  /\ ev.kind = "SetPower"
  /\ ev.reason = "power_cooldown"
  /\ ~glm_controller.power_settling
  /\ now - glm_controller.power_transition_start >= POWER_SETTLING_TIME

\* C6: a command older than MAX_EVENT_AGE when it is dequeued is discarded:
\* nothing is sent, the power handler is not entered, the controller and the
\* daemon stay as they are, and the consumer is back at the queue.
C6_StaleDiscarded ==
  [][ (/\ Len(queue') < Len(queue)
       /\ now - Head(queue).timestamp > MAX_EVENT_AGE) =>
        /\ ev'.op = "stale"
        /\ ev'.cmd = Head(queue).id
        /\ ev'.sent = << >>
        /\ glm_controller' = glm_controller
        /\ daemon' = daemon
        /\ consumer' = consumer
        /\ consumer'.pc = "idle"
        /\ queue' = Tail(queue) ]_vars

\* C6 happens: a stale command was discarded while the next one waits.
C6_Witness ==
  /\ ev.op = "stale"
  /\ consumer.pc = "idle"
  /\ queue # << >>

\* The command with identifier i was rejected at admission in the last step.
Rejected(i) == ev.op = "reject" /\ ev.cmd = i
\* The command with identifier i waits in the queue.
InQueue(i) == \E k \in 1..Len(queue) : queue[k].id = i
\* The command with identifier i was handed to its handler in the last step,
\* or its handler took a step.
Handled(i) == ev.cmd = i /\ ev.op \notin {"enqueue", "rest", "reject", "stale"}

\* C7: a command rejected at admission is gone for good: from the rejection
\* on it is never in the queue again and never handled, and the rejecting
\* step leaves the consumer at the queue, ready for the next command.
C7_RejectedDropped ==
  /\ [][ ev'.op = "reject" =>
           /\ queue' = Tail(queue)
           /\ consumer'.pc = "idle"
           /\ ev'.sent = << >> ]_vars
  /\ \A i \in 1..MaxInputs :
       [](Rejected(i) => [](~InQueue(i) /\ ~Handled(i)))

\* C7 happens: a command was rejected; it is not in the queue and the
\* consumer is back at the queue.
C7_Witness ==
  /\ ev.op = "reject"
  /\ ev.cmd > 0
  /\ consumer.pc = "idle"
  /\ ~InQueue(ev.cmd)

\* C8 (as claimed): no step changes power after an actuator read that
\* returned "unknown", in the pattern detector and in the resync.
C8_UnknownReadKeepsPower ==
  [][ ev'.read = "unknown" =>
        glm_controller'.power = glm_controller.power ]_vars

\* C9: when the actuator fails in a dispatched SetPower, the handler ends the
\* transition with success = FALSE, _power_settling is cleared, and power is
\* what it was: no step of the handler changes it, so after a failed toggle
\* it is still the opposite of the target.
C9_ActuatorFailure ==
  [][ /\ (ev'.op \in {"power_start", "power_precheck", "power_set_state"}) =>
           glm_controller'.power = glm_controller.power
      /\ (consumer.pc = "sleep" /\ ~consumer.success /\ consumer'.pc = "idle") =>
           /\ ev'.op = "power_end"
           /\ ~ev'.success
           /\ ev'.actual = None
           /\ glm_controller'.power = glm_controller.power
           /\ consumer.action = Some(SetPower(None)) =>
                glm_controller'.power = ~consumer.target_state
           /\ ~glm_controller'.power_settling
           /\ glm_controller'.power_target = None ]_vars

\* C9 happens: a transition was ended after the settling wait as failed.
C9_Witness ==
  /\ ev.op = "power_end"
  /\ ev.reason = "settled"
  /\ ~ev.success
  /\ ev.target # None
  /\ glm_controller.power # ev.target[1]

\* C10: end_power_transition(success, actual) clears _power_settling and the
\* target whatever the state before; power is actual if success and actual
\* is given, the transition's target if success and actual is omitted, and
\* unchanged if success is false; the notification is forced and delivered.
C10_EndPowerTransition ==
  [][ ev'.op = "power_end" =>
        /\ ~glm_controller'.power_settling
        /\ glm_controller'.power_target = None
        /\ (ev'.success /\ ev'.actual # None) =>
             glm_controller'.power = ev'.actual[1]
        /\ (ev'.success /\ ev'.actual = None
              /\ glm_controller.power_target # None) =>
             glm_controller'.power = glm_controller.power_target[1]
        /\ ~ev'.success => glm_controller'.power = glm_controller.power
        /\ ev'.notif = "forced"
        /\ glm_controller'.last_notified_state =
             Some(get_state(glm_controller', now)) ]_vars

\* C10 happens: a transition was ended with success and without an actual
\* state while the target was off, and power is off.
C10_Witness ==
  /\ ev.op = "power_end"
  /\ ev.success
  /\ ev.actual = None
  /\ ev.target = Some(FALSE)
  /\ ~glm_controller.power
  /\ ~glm_controller.power_settling

\* C11 (as claimed): when the send of a dispatched volume, mute or dim
\* command fails, the cached MIDI output is reset to None afterwards.
C11_SendFailureResetsOutput ==
  (ev.op \in SendOps /\ ev.sent = << >>) => daemon.midi_output = "None"

\* The curve is non-decreasing.
NonDecreasing(curve) ==
  \A i \in 1..(Len(curve) - 1) : curve[i] <= curve[i + 1]

\* C12 (as claimed): on the curve 1, 1, 2, 2, 3 the k-th call of a run,
\* counted from the call that reset it (k = 1), returns
\* curve[min(k - 1, len(curve) - 1)] (the element after that index in a
\* sequence numbered from 1): 1, 1, 2, 2, 3, 3, 3, ...; count is k after
\* the call.
C12_CurveLookup ==
  (/\ ev.op = "calculate_speed"
   /\ daemon.volume_knob.volume_increases_list = <<1, 1, 2, 2, 3>>) =>
    LET k == daemon.volume_knob.count
        curve == daemon.volume_knob.volume_increases_list
    IN ev.value = curve[Min(k - 1, Len(curve) - 1) + 1]

\* C13: for a non-decreasing curve, a call that continues a run returns at
\* least what the call before it returned, and every call returns at least 1
\* and at most the last element of the curve.
C13_StepsMonotone ==
  [][ (/\ ev'.op = "calculate_speed"
       /\ NonDecreasing(daemon.volume_knob.volume_increases_list)) =>
        LET curve == daemon.volume_knob.volume_increases_list
        IN /\ ev'.value >= 1
           /\ ev'.value <= curve[Len(curve)]
           /\ ev'.value = daemon'.volume_knob.distance
           /\ ev'.reason = "None" => ev'.value >= daemon.volume_knob.distance ]_vars

\* C13 happens: a run on the curve 2, 3 went past the end of the curve and
\* the call returned its last element again.
C13_Witness ==
  /\ ev.op = "calculate_speed"
  /\ ev.reason = "None"
  /\ daemon.volume_knob.volume_increases_list = <<2, 3>>
  /\ daemon.volume_knob.count > 3
  /\ ev.value = 3

\* C14: calculate_speed resets the run (returns 1, count = 1, first_time =
\* now) if and only if the button differs from the previous call's, or the
\* gap since the previous call exceeds min_click, or the average gap since
\* the run started exceeds max_per_click_avg; otherwise the run goes on:
\* count grows by exactly 1 and first_time stays.
C14_ResetIff ==
  [][ ev'.op = "calculate_speed" =>
        LET k == daemon.volume_knob
            k2 == daemon'.volume_knob
            t == k2.last_time
            gaps == k.count
            reset ==
              \/ ev'.button # k.last_button
              \/ t - k.last_time > min_click
              \/ (t - k.first_time) > max_per_click_avg * gaps
        IN /\ k2.last_button = ev'.button
           /\ reset <=> (ev'.value = 1 /\ k2.count = 1 /\ k2.first_time = t)
           /\ reset <=> (k2.count = 1)
           /\ ~reset => (k2.count = k.count + 1 /\ k2.first_time = k.first_time) ]_vars

\* C14 happens: a run was reset by the running average alone, the button
\* being the same and the gap within min_click.
C14_Witness ==
  /\ ev.op = "calculate_speed"
  /\ ev.reason = "avg"
  /\ daemon.volume_knob.delta_time <= min_click
  /\ daemon.volume_knob.count = 1
  /\ daemon.volume_knob.first_time = daemon.volume_knob.last_time

\* The operations of the reader's loop body on a received control change.
RxOps == {"rx", "rx_pattern", "rx_pattern_ignored"}

\* The pattern buffer the reader tests after it received the control
\* change of the step being taken.
RxBuffer == FilterWindow(Append(daemon.rx_seq, <<now, ev'.cc>>), now)

\* C15: when the last five buffered identifiers are the signature but the
\* first and the fifth are less than POWER_PATTERN_MIN_SPAN apart, the match
\* is not accepted: the actuator is not read, the controller (power
\* included) is unchanged, nothing is notified, and the buffer is kept.
C15_ShortSpanRejected ==
  [][ (/\ ev'.op \in RxOps
       /\ PatternMatched(RxBuffer)
       /\ RxBuffer[Len(RxBuffer)][1] - RxBuffer[Len(RxBuffer) - 4][1]
            < POWER_PATTERN_MIN_SPAN) =>
        /\ ev'.op = "rx"
        /\ ev'.read = "none"
        /\ ev'.notif = "none"
        /\ glm_controller' = glm_controller
        /\ daemon'.rx_seq = RxBuffer
        /\ daemon'.last_pattern_time = daemon.last_pattern_time ]_vars

\* C15 happens: the fifth message of a signature arrived at the instant of
\* the first; the reader goes on to update_from_midi with the buffer kept.
C15_Witness ==
  /\ ev.op = "rx"
  /\ reader.pc = "update"
  /\ PatternMatched(daemon.rx_seq)
  /\ daemon.rx_seq[Len(daemon.rx_seq)][1] = daemon.rx_seq[Len(daemon.rx_seq) - 4][1]

\* C16: a signature match that passes the span test while power commands
\* are locked out (settling or cooldown after the start of a transition) or
\* while the volume handshake is in progress causes no actuator read and no
\* change of the controller (power included), and the buffer is cleared.
C16_MatchSuppressed ==
  [][ (/\ ev'.op \in RxOps
       /\ PatternAccepted(RxBuffer)
       /\ \/ daemon.suppress_power_pattern
          \/ /\ glm_controller.power_transition_start # 0
             /\ now - glm_controller.power_transition_start
                  < POWER_SETTLING_TIME + POWER_COOLDOWN_TIME) =>
        /\ ev'.op = "rx_pattern_ignored"
        /\ ev'.read = "none"
        /\ ev'.notif = "none"
        /\ glm_controller' = glm_controller
        /\ daemon'.rx_seq = << >>
        /\ daemon'.last_pattern_time = daemon.last_pattern_time ]_vars

\* C16 happens: a match was ignored in the cooldown of a transition that
\* has ended.
C16_Witness ==
  /\ ev.op = "rx_pattern_ignored"
  /\ ev.reason = "lockout"
  /\ ~glm_controller.power_settling
  /\ now - glm_controller.power_transition_start >= POWER_SETTLING_TIME
  /\ daemon.rx_seq = << >>

\* C16 happens as well during the volume handshake.
C16_WitnessHandshake ==
  /\ ev.op = "rx_pattern_ignored"
  /\ ev.reason = "suppressed"
  /\ main = "handshake"
  /\ daemon.rx_seq = << >>

\* The steps of the watchdog thread.
WatchdogOps ==
  {"watchdog_check", "watchdog_restart", "watchdog_callback",
   "watchdog_minimize"}

\* C17 (as claimed): every restart the watchdog performs is followed by the
\* resync callback, and is_alive() is true after it.
C17_EveryRestartResyncs ==
  [][ ev'.op = "watchdog_restart" =>
        /\ glm_manager'.pc = "callback"
        /\ is_alive(glm_manager', glm')[1] ]_vars

\* C17 (amended): a watchdog turn that finds no process restarts the
\* application.  A restart whose _start_glm succeeds is followed by exactly
\* one call of the resync callback, with the pid of the process the manager
\* holds, which is a newly launched, not minimized process whenever none was
\* running; minimize() comes after the callback, nothing else minimizes the
\* window, and is_alive() is true after the restart.  A restart whose
\* _start_glm fails is followed by no callback: the watchdog is back at the
\* top of its loop with the streak 0.
C17_SuccessfulRestartResyncsOnce ==
  [][ /\ (ev'.op \in WatchdogOps /\ glm_manager.pc = "check"
            /\ ~is_alive(glm_manager, glm)[1]) =>
           (ev'.op = "watchdog_restart" /\ ev'.reason = "dead")
      /\ (ev'.op = "watchdog_restart" /\ ev'.success) =>
           /\ glm_manager'.pc = "callback"
           /\ glm'.pid # 0
           /\ glm_manager'.process = glm'.pid
           /\ ev'.value = glm'.pid
           /\ is_alive(glm_manager', glm')[1]
           /\ ev'.reason = "dead" =>
                (glm'.pid = glm.last_pid + 1 /\ ~glm'.minimized)
      /\ (ev'.op = "watchdog_restart" /\ ~ev'.success) =>
           /\ glm_manager'.pc = "check"
           /\ glm_manager'.non_responsive_count = 0
      /\ (glm_manager.pc = "callback" /\ glm_manager'.pc # "callback") =>
           /\ ev'.op = "watchdog_callback"
           /\ ev'.value = glm_manager.process
           /\ glm_manager'.pc = "minimize"
      /\ ev'.op = "watchdog_callback" => glm_manager.pc = "callback"
      /\ (glm_manager.pc = "minimize" /\ glm_manager'.pc # "minimize") =>
           (ev'.op = "watchdog_minimize" /\ glm_manager'.pc = "check")
      /\ (glm'.minimized /\ ~glm.minimized) =>
           ev'.op \in {"watchdog_callback", "watchdog_minimize"} ]_vars

\* C17 happens: the application died, the watchdog started a new process
\* and the callback was called with its pid; minimize() is still to come.
C17_Witness ==
  /\ ev.op = "watchdog_callback"
  /\ ev.value = 2
  /\ glm.pid = 2
  /\ glm_manager.process = 2
  /\ glm_manager.pc = "minimize"

\* C18: the streak lies in 0..max_non_responsive.  A check that finds the
\* window responding sets it to 0; a check that finds it hung adds 1; the
\* watchdog kills and restarts exactly in the turn in which the streak
\* reaches max_non_responsive; the streak is 0 when _restart_glm is over;
\* no other step changes it.
C18_Streak ==
  /\ [](glm_manager.non_responsive_count \in 0..max_non_responsive)
  /\ [][ /\ (ev'.op = "watchdog_check" /\ ev'.read = "responding") =>
              glm_manager'.non_responsive_count = 0
         /\ (ev'.op = "watchdog_check" /\ ev'.read = "not_responding") =>
              /\ glm_manager'.non_responsive_count
                   = glm_manager.non_responsive_count + 1
              /\ glm_manager'.non_responsive_count < max_non_responsive
         /\ (ev'.op = "watchdog_restart" /\ ev'.reason = "hung") =>
              /\ glm_manager.non_responsive_count + 1 = max_non_responsive
              /\ is_alive(glm_manager, glm)[1]
              /\ glm.hung
         /\ (/\ ev'.op \in WatchdogOps
             /\ glm_manager.pc = "check"
             /\ is_alive(glm_manager, glm)[1]
             /\ glm.hung
             /\ glm_manager.non_responsive_count + 1 = max_non_responsive) =>
              (ev'.op = "watchdog_restart" /\ ev'.reason = "hung")
         /\ (ev'.op \in WatchdogOps /\ glm_manager'.pc = "check"
               /\ ev'.op # "watchdog_check") =>
              glm_manager'.non_responsive_count = 0
         /\ ev'.op \notin {"watchdog_check", "watchdog_restart",
                           "watchdog_minimize"} =>
              glm_manager'.non_responsive_count
                = glm_manager.non_responsive_count ]_vars

\* C18 happens: the window was hung for max_non_responsive checks in a row
\* and the watchdog killed and restarted the application; the restart is
\* over and the streak is 0.
C18_Witness ==
  /\ ev.op = "watchdog_minimize"
  /\ glm_manager.pc = "check"
  /\ glm_manager.non_responsive_count = 0
  /\ glm.pid = 2
  /\ ~glm.hung

(* ============ the subscribers' snapshot against the controller ========== *)
\* The reader's echoes, the dispatcher's mute and power commands and the
\* watchdog's resync callback, in every order, against the clock.
InitSnapshot == Running(TRUE)

NextSnapshot ==
  \/ Tick
  \/ Reinit
  \/ \E value \in ToggleValues : MidiEcho(GLM_MUTE_CC, value)
  \/ MidiUpdate
  \/ \E a \in {SetMute(None), SetPower(None)} : Enqueue(a)
  \/ ConsumerGet
  \/ ConsumerPrecheck
  \/ ConsumerSetState
  \/ ConsumerEnd

SpecSnapshot == InitSnapshot /\ [][NextSnapshot]_vars

\* No handler is under way and nothing waits to be processed.
Quiescent ==
  /\ queue = << >>
  /\ consumer = ConsumerIdle
  /\ reader = ReaderWait

\* The fields of a snapshot that do not depend on the clock.
StateFields(s) ==
  [volume |-> s.volume, mute |-> s.mute, dim |-> s.dim, power |-> s.power,
   power_transitioning |-> s.power_transitioning]

\* C19: whenever no update is under way, the snapshot the subscribers
\* received last shows the controller's volume, mute, dim, power and
\* transitioning flag.
C19_SnapshotConsistent ==
  (Quiescent /\ glm_controller.last_notified_state # None) =>
     StateFields(glm_controller.last_notified_state[1])
       = StateFields(get_state(glm_controller, now))

(* ================== the debounce of the notifications =================== *)
\* The daemon runs and the application answered the volume handshake with
\* 126: update_from_midi stored the volume and delivered the first snapshot.
InitDebounce ==
  \E power \in BOOLEAN :
    /\ glm_controller =
         update_from_midi(
           add_state_callback([GlmControllerInit EXCEPT !.power = power],
                              log_state_change),
           GLM_VOLUME_ABS, 126, now)
    /\ queue = << >>
    /\ consumer = ConsumerIdle
    /\ reader = ReaderWait
    /\ daemon = [DaemonInit(TRUE, FALSE, TRUE) EXCEPT
                   !.midi_output = "open",
                   !.power_controller = TRUE]
    /\ main = "running"
    /\ app = 0
    /\ glm_manager = GlmManagerInit
    /\ glm = GlmProcess(1, FALSE)
    /\ inputs = 0
    /\ ev = Ev("init_done")

\* Volume and power commands against the application's volume echoes and
\* the clock: plain, suppressed and forced notifications.
NextDebounce ==
  \/ Tick
  \/ \E a \in {SetVolume(200), AdjustVolume(-3), SetPower(None)} : Enqueue(a)
  \/ \E value \in EchoVolumes : MidiEcho(GLM_VOLUME_ABS, value)
  \/ MidiUpdate
  \/ ConsumerGet
  \/ ConsumerPrecheck
  \/ ConsumerSetState
  \/ ConsumerEnd

SpecDebounce == InitDebounce /\ [][NextDebounce]_vars

\* C20: a notification that is not forced is delivered only if the snapshot
\* differs from the one delivered last, and is otherwise suppressed, the
\* delivered snapshot staying as it was; a forced notification (the start
\* and the end of a power transition, the echo of a clamped volume) is
\* delivered whatever the snapshot is; nothing but a notification changes
\* the delivered snapshot.
C20_Debounce ==
  [][ /\ ev'.notif = "normal" =>
           /\ Some(get_state(glm_controller', now))
                # glm_controller.last_notified_state
           /\ glm_controller'.last_notified_state
                = Some(get_state(glm_controller', now))
      /\ ev'.notif = "debounced" =>
           /\ Some(get_state(glm_controller', now))
                = glm_controller.last_notified_state
           /\ glm_controller'.last_notified_state
                = glm_controller.last_notified_state
      /\ ev'.notif = "forced" =>
           glm_controller'.last_notified_state
             = Some(get_state(glm_controller', now))
      /\ ev'.notif = "none" =>
           glm_controller'.last_notified_state
             = glm_controller.last_notified_state
      /\ (ev'.op = "update_from_midi"
            /\ UpdateForce(glm_controller, ev'.cc, ev'.value)) =>
           ev'.notif = "forced"
      /\ ev'.op = "power_end" => ev'.notif = "forced" ]_vars

\* C20 happens: the echo of a clamped volume, equal to the volume the
\* controller had, changed nothing, and its forced notification delivered
\* the snapshot again.
C20_Witness ==
  /\ ev.op = "update_from_midi"
  /\ ev.notif = "forced"
  /\ ~ev.success
  /\ glm_controller.volume = 126
  /\ glm_controller.last_notified_state
       = Some(get_state(glm_controller, now))

\* C20 happens: a notification that was not forced found the snapshot
\* delivered last and was suppressed.
C20_WitnessDebounced ==
  /\ ev.op = "update_from_midi"
  /\ ev.notif = "debounced"
  /\ glm_controller.last_notified_state
       = Some(get_state(glm_controller, now))

(* ===================== subscribers that raise ============================ *)
\* Largest number of callbacks registered besides log_state_change.
MaxSubscribers == 2

\* The callbacks the REST and MQTT adapters may have registered, in every
\* order and number up to MaxSubscribers; each raises or does not.
SubscriberLists ==
  UNION {[1..n -> {Subscriber(TRUE), Subscriber(FALSE)}] : n \in 1..MaxSubscribers}

RECURSIVE Register(_, _)
\* add_state_callback for each callback of a list.
Register(c, callbacks) ==
  IF callbacks = << >> THEN c
  ELSE Register(add_state_callback(c, Head(callbacks)), Tail(callbacks))

\* The controller with its subscribers registered; nothing else has run.
InitSubscribers ==
  \E callbacks \in SubscriberLists, power \in BOOLEAN :
    /\ glm_controller =
         Register(add_state_callback([GlmControllerInit EXCEPT !.power = power],
                                     log_state_change),
                  callbacks)
    /\ queue = << >>
    /\ consumer = ConsumerIdle
    /\ reader = ReaderWait
    /\ daemon = [DaemonInit(TRUE, FALSE, TRUE) EXCEPT !.midi_output = "open"]
    /\ main = "running"
    /\ app = 0
    /\ glm_manager = GlmManagerInit
    /\ glm = GlmProcess(1, FALSE)
    /\ inputs = 0
    /\ ev = Ev("init_done")

\* The controller methods that notify, called in every order.
NextSubscribers ==
  \/ CallUpdateFromMidi
  \/ CallSetPendingVolume
  \/ CallStartPowerTransition
  \/ CallEndPowerTransition

SpecSubscribers == InitSubscribers /\ [][NextSubscribers]_vars

\* C21: a delivered notification calls every registered callback with the
\* same snapshot, the one stored as delivered, whether or not some callback
\* raises; the set of callbacks stays as it is, and the state the snapshot
\* was taken from is the controller's state after the call.
C21_RaisingSubscriberSkipped ==
  [][ ev'.notif \in {"normal", "forced"} =>
        /\ Len(glm_controller'.state_callbacks)
             = Len(glm_controller.state_callbacks)
        /\ \A i \in 1..Len(glm_controller'.state_callbacks) :
             /\ glm_controller'.state_callbacks[i].received
                  = glm_controller'.last_notified_state
             /\ glm_controller'.state_callbacks[i].raises
                  = glm_controller.state_callbacks[i].raises
        /\ glm_controller'.last_notified_state
             = Some(get_state(glm_controller', now)) ]_vars

\* C21 happens: the first of two callbacks after log_state_change raises,
\* and the last one received the snapshot of a mute echo.
C21_Witness ==
  /\ ev.op = "update_from_midi"
  /\ ev.notif = "normal"
  /\ Len(glm_controller.state_callbacks) = 3
  /\ glm_controller.state_callbacks[2].raises
  /\ ~glm_controller.state_callbacks[3].raises
  /\ glm_controller.mute
  /\ glm_controller.state_callbacks[3].received
       = Some(get_state(glm_controller, now))

(* ======================= mute and dim commands =========================== *)
\* Mute and dim commands with and without an explicit state.
ToggleCommands ==
  {SetMute(s) : s \in {None, Some(TRUE), Some(FALSE)}}
    \cup {SetDim(s) : s \in {None, Some(TRUE), Some(FALSE)}}

\* Mute and dim commands against the application's mute and dim echoes.
NextToggle ==
  \/ \E a \in ToggleCommands : Enqueue(a)
  \/ \E cc \in {GLM_MUTE_CC, GLM_DIM_CC} :
       \E value \in ToggleValues : MidiEcho(cc, value)
  \/ MidiUpdate
  \/ ConsumerGet

SpecToggle == InitRunning /\ [][NextToggle]_vars

\* The value a mute or dim command asks for: 127 or 0 for an explicit
\* state, the opposite of the tracked state without one.
RequestedValue(action, current) ==
  IF action.arg = None THEN (IF current THEN 0 ELSE 127)
  ELSE (IF action.arg[1] THEN 127 ELSE 0)

\* C22: a dispatched SetMute or SetDim that puts a message on the channel
\* puts the value of its explicit state, or without one the opposite of the
\* tracked state.
C22_ExplicitStateSent ==
  [][ (ev'.op = "toggle" /\ ev'.sent # << >>) =>
        LET action == Head(queue).action
            current == IF action.kind = "SetMute"
                         THEN glm_controller.mute ELSE glm_controller.dim
            cc == IF action.kind = "SetMute" THEN GLM_MUTE_CC ELSE GLM_DIM_CC
        IN ev'.sent = << <<cc, RequestedValue(action, current)>> >> ]_vars

(* ================= the knob against the volume echoes ==================== *)
\* Number of commands and single echoes when the knob is turned.
MaxTurns == 3

\* hid_reader: a report of the volume keys; calculate_speed gives the step
\* and the AdjustVolume command is put on the queue.  The knob is turned
\* fast (gap 1) or after a pause (gap min_click + 1).
HidRead ==
  /\ main = "running"
  /\ inputs < MaxTurns
  /\ Len(queue) < QUEUE_MAX_SIZE
  /\ \E button \in {KEY_VOL_UP, KEY_VOL_DOWN}, gap \in {1, min_click + 1} :
       LET k == daemon.volume_knob
           k2 == calculate_speed(k, k.last_time + gap, button)
           delta == IF button = KEY_VOL_UP THEN k2.distance ELSE -k2.distance
       IN /\ daemon' = [daemon EXCEPT !.volume_knob = k2]
          /\ queue' = Append(queue,
                             QueuedAction(inputs + 1, AdjustVolume(delta), now))
          /\ ev' = [Ev("hid") EXCEPT !.cmd = inputs + 1, !.kind = "AdjustVolume",
                                    !.button = button, !.value = delta]
  /\ inputs' = inputs + 1
  /\ UNCHANGED <<glm_controller, consumer, reader, main, app, glm_manager, glm>>

\* The daemon runs; the volume handshake was answered with 126, or was not
\* answered and the volume is not known.
InitAdjust == InitDebounce \/ InitRunning

\* The knob and an absolute target against the application, which answers
\* each absolute-volume message in turn.
NextAdjust ==
  \/ HidRead
  \/ Enqueue(SetVolume(200))
  \/ EchoRequest
  \/ MidiUpdate
  \/ ConsumerGet

SpecAdjust == InitAdjust /\ [][NextAdjust]_vars

\* The effective volume: the pending volume if one is set, else the
\* confirmed one.
Effective(c) ==
  IF c.pending_volume # None THEN c.pending_volume[1] ELSE c.volume

\* The clamp of a volume to the MIDI range.
Clamp(x) == IF x < 0 THEN 0 ELSE IF x > VOLUME_MAX THEN VOLUME_MAX ELSE x

\* The consumer dispatches an AdjustVolume whose target differs from the
\* effective volume, the volume being known.
AdjustDispatched ==
  /\ ev'.op \in {"adjust_volume", "adjust_native", "adjust_at_limit"}
  /\ glm_controller.volume_initialized
  /\ Clamp(Effective(glm_controller) + Head(queue).action.arg)
       # Effective(glm_controller)

\* The reader processes the echo of the pending volume.
PendingEchoed ==
  /\ ev'.op = "update_from_midi"
  /\ ev'.cc = GLM_VOLUME_ABS
  /\ glm_controller.pending_volume = Some(ev'.value)

\* What the echo of the pending volume does: the volume is the echoed one,
\* nothing is pending and one notification with the new volume is delivered.
EchoConfirms ==
  PendingEchoed =>
    /\ glm_controller'.volume = ev'.value
    /\ glm_controller'.pending_volume = None
    /\ ev'.notif = "normal"
    /\ glm_controller'.last_notified_state # None
    /\ glm_controller'.last_notified_state[1].volume = ev'.value

\* What the echo of the pending volume does when the confirmed volume may
\* already be the echoed one: the notification is then suppressed, and the
\* snapshot delivered last carries the volume in either case.
EchoConfirmsOnce ==
  PendingEchoed =>
    /\ glm_controller'.volume = ev'.value
    /\ glm_controller'.pending_volume = None
    /\ ev'.notif =
         IF glm_controller.volume # ev'.value THEN "normal" ELSE "debounced"
    /\ glm_controller'.last_notified_state # None
    /\ glm_controller'.last_notified_state[1].volume = ev'.value

C24_ToggleTransition ==
  [][ /\ (ev'.op = "power_start" /\ Head(queue).action.arg = None) =>
           /\ consumer'.target_state = ~glm_controller.power
           /\ glm_controller'.power_target = Some(~glm_controller.power)
           /\ consumer'.pc = "precheck"
           /\ ev'.notif = "forced"
           /\ glm_controller'.last_notified_state # None
           /\ glm_controller'.last_notified_state[1].power_transitioning
           /\ glm_controller'.last_notified_state[1].power
                = glm_controller.power
      /\ (consumer.pc = "idle" /\ consumer'.pc # "idle") =>
           ev'.op = "power_start"
      /\ (consumer.pc # "idle" /\ consumer'.pc # "idle") =>
           consumer'.target_state = consumer.target_state
      /\ ev'.op = "power_set_state" => consumer.pc = "set_state"
      /\ (ev'.op = "power_end" /\ ev'.success) =>
           /\ consumer.pc = "sleep"
           /\ consumer' = ConsumerIdle
           /\ ev'.notif = "forced"
           /\ glm_controller'.power = consumer.target_state
           /\ glm_controller'.last_notified_state # None
           /\ glm_controller'.last_notified_state[1].power
                = consumer.target_state
           /\ ~glm_controller'.last_notified_state[1].power_transitioning ]_vars

\* C24 happens: a toggle while power was on; the actuator confirmed off and
\* the action ended with the snapshot power off, not transitioning.
C24_Witness ==
  /\ ev.op = "power_end"
  /\ ev.success
  /\ ev.actual = Some(FALSE)
  /\ ev.target = Some(FALSE)
  /\ consumer = ConsumerIdle
  /\ ~glm_controller.power
  /\ glm_controller.last_notified_state # None
  /\ ~glm_controller.last_notified_state[1].power
  /\ ~glm_controller.last_notified_state[1].power_transitioning

\* The steps in which the consumer takes a command off the queue: it
\* discards it as stale, rejects it, or dispatches it.
HandledOps ==
  {"stale", "reject", "no_port", "set_volume", "adjust_volume",
   "adjust_at_limit", "adjust_native", "toggle", "power_unavailable",
   "power_start"}

\* The steps in which a producer puts a command on the queue.
PutOps == {"enqueue", "rest", "hid"}

\* The commands of a queue with their numbers, without their time stamps.
Entries(q) == [i \in 1..Len(q) |-> <<q[i].id, q[i].action>>]

\* C25: the queue holds the commands in the order they were put (their
\* numbers increase from head to tail); a put appends the command with the
\* next number; the consumer always takes the head, that is the oldest
\* command, and takes it off the queue in the same step, so no command is
\* handled twice or overtaken; no other step touches the queue.
C25_Fifo ==
  /\ [](\A i, j \in 1..Len(queue) :
          i < j => (queue[i].id < queue[j].id /\ queue[j].id <= inputs))
  /\ [][ /\ ev'.op \in HandledOps =>
              /\ queue # << >>
              /\ ev'.cmd = Head(queue).id
              /\ Entries(queue') = Tail(Entries(queue))
         /\ (ev'.op \in PutOps /\ ev'.cmd # 0) =>
              /\ Len(queue') = Len(queue) + 1
              /\ Entries(queue')
                   = Append(Entries(queue), Entries(queue')[Len(queue')])
              /\ queue'[Len(queue')].id = ev'.cmd
              /\ ev'.cmd = inputs + 1
         /\ (ev'.op \notin HandledOps /\ ~(ev'.op \in PutOps /\ ev'.cmd # 0)) =>
              Entries(queue') = Entries(queue) ]_vars

\* C25 happens: two commands were put, the consumer handled the first, and
\* the second is the one left on the queue.
C25_Witness ==
  /\ ev.op \in HandledOps
  /\ ev.cmd = 1
  /\ Len(queue) = 1
  /\ queue[1].id = 2

(* ================================ stop() ================================ *)
\* stop(): the stop event is set; the put of the sentinel comes next.
StopBegin ==
  /\ main = "running"
  /\ main' = "stopping"
  /\ ev' = Ev("stop")
  /\ UNCHANGED <<glm_controller, queue, consumer, reader, daemon, app,
                 glm_manager, glm, inputs>>

\* A variant of StopPut that gives up when the queue is full.
StopPutNowait ==
  /\ main = "stopping"
  /\ queue' = IF Len(queue) < QUEUE_MAX_SIZE
                THEN Append(queue, Sentinel) ELSE queue
  /\ main' = "closing"
  /\ ev' = Ev("stop_put")
  /\ UNCHANGED <<glm_controller, consumer, reader, daemon, app, glm_manager,
                 glm, inputs>>

\* stop(): queue.put(None) returns; it blocks while the queue is full.
StopPut ==
  /\ main = "stopping"
  /\ Len(queue) < QUEUE_MAX_SIZE
  /\ queue' = Append(queue, Sentinel)
  /\ main' = "closing"
  /\ ev' = Ev("stop_put")
  /\ UNCHANGED <<glm_controller, consumer, reader, daemon, app, glm_manager,
                 glm, inputs>>

\* stop(): the watchdog is stopped, the devices and the MIDI output are
\* closed.
StopClose ==
  /\ main = "closing"
  /\ daemon' = reset_midi_output(daemon)
  /\ glm_manager' = [glm_manager EXCEPT !.running = FALSE]
  /\ main' = "stopped"
  /\ ev' = Ev("stop_close")
  /\ UNCHANGED <<glm_controller, queue, consumer, reader, app, glm, inputs>>

\* consumer: queue.get() returns the sentinel and the loop is left.
ConsumerExit ==
  /\ main \in ConsumerRuns
  /\ consumer.pc = "idle"
  /\ queue # << >>
  /\ Head(queue) = Sentinel
  /\ queue' = Tail(queue)
  /\ consumer' = [ConsumerIdle EXCEPT !.pc = "exited"]
  /\ ev' = Ev("consumer_exit")
  /\ UNCHANGED <<glm_controller, reader, daemon, main, app, glm_manager, glm,
                 inputs>>

\* The REST server is not stopped by stop(): it puts a command after the
\* stop event was set.
LateSubmit ==
  /\ main \in {"stopping", "closing", "stopped"}
  /\ inputs < MaxInputs
  /\ Len(queue) < QUEUE_MAX_SIZE
  /\ queue' = Append(queue, QueuedAction(inputs + 1, SetMute(None), now))
  /\ inputs' = inputs + 1
  /\ ev' = [Ev("rest") EXCEPT !.cmd = inputs + 1, !.kind = "SetMute"]
  /\ UNCHANGED <<glm_controller, consumer, reader, daemon, main, app,
                 glm_manager, glm>>

\* The numbers of commands on the queue when stop() is called.
Backlogs == {0, 2, QUEUE_MAX_SIZE}

\* The daemon runs; the queue is empty, holds two commands, or is full.
InitStop ==
  \E n \in Backlogs :
    /\ glm_controller =
         add_state_callback(GlmControllerInit, log_state_change)
    /\ queue = [i \in 1..n |-> QueuedAction(i - n - 1, SetMute(None), now)]
    /\ consumer = ConsumerIdle
    /\ reader = ReaderWait
    /\ daemon = [DaemonInit(TRUE, FALSE, FALSE) EXCEPT !.midi_output = "open"]
    /\ main = "running"
    /\ app = 0
    /\ glm_manager = GlmManagerInit
    /\ glm = GlmProcess(1, FALSE)
    /\ inputs = 0
    /\ ev = Ev("init_done")

NextStop ==
  \/ Enqueue(SetMute(None))
  \/ LateSubmit
  \/ ConsumerGet
  \/ ConsumerExit
  \/ StopBegin
  \/ StopPut
  \/ StopClose

\* The consumer thread and the thread that called stop() are scheduled:
\* a queue.get() on a queue that is not empty returns, and so does a
\* queue.put() on a queue that is not full.
SpecStop ==
  /\ InitStop
  /\ [][NextStop]_vars
  /\ WF_vars(ConsumerGet)
  /\ WF_vars(ConsumerExit)
  /\ WF_vars(StopPut)

\* C26: once stop() was called the consumer eventually takes the sentinel
\* and leaves its loop, whatever the queue held; after that it takes
\* nothing off the queue and puts nothing on the channel; and it leaves its
\* loop only on the sentinel, that is after stop() put it.
C26_StopEndsConsumer ==
  /\ (main # "running") ~> (consumer.pc = "exited")
  /\ [](consumer.pc = "exited" => main \in {"closing", "stopped"})
  /\ [][ consumer.pc = "exited" =>
           /\ consumer' = consumer
           /\ ev'.op \notin HandledOps
           /\ ev'.sent = << >>
           /\ Len(queue') >= Len(queue) ]_vars

\* C26 happens: stop() was called, the consumer took the sentinel and left
\* its loop, and a command put afterwards stays on the queue.
C26_Witness ==
  /\ main = "stopped"
  /\ consumer.pc = "exited"
  /\ ev.op = "rest"
  /\ Len(queue) = 1
  /\ Head(queue) # Sentinel

\* C26 happens: stop() was called while the queue was full and waits in
\* queue.put.
C26_WitnessFull ==
  /\ main = "stopping"
  /\ Len(queue) = QUEUE_MAX_SIZE
  /\ ~ENABLED StopPut

(* ================= the effective volume of the dispatcher ================ *)
\* The consumer dispatches an AdjustVolume to its handler, the port being
\* open.
AdjustOps == {"adjust_volume", "adjust_native", "adjust_at_limit"}

\* What a dispatched AdjustVolume does with effective volume eff (None, or
\* <<v>>): without one it takes the native way; with one it computes
\* clamp(v + d), and sets pending_volume to it unless that is v itself.
AdjustUses(eff) ==
  IF eff = None
    THEN ev'.op = "adjust_native"
    ELSE LET target == Clamp(eff[1] + Head(queue).action.arg)
         IN IF target = eff[1]
              THEN ev'.op = "adjust_at_limit"
              ELSE /\ ev'.op = "adjust_volume"
                   /\ glm_controller'.pending_volume = Some(target)

\* C27 (as claimed): the effective volume a dispatched AdjustVolume uses is
\* pending_volume whenever that is set, otherwise the confirmed volume, and
\* none only when the volume is not initialized and nothing is pending.
C27_PendingFirst ==
  [][ ev'.op \in AdjustOps =>
        AdjustUses(IF glm_controller.pending_volume # None
                     THEN glm_controller.pending_volume
                   ELSE IF glm_controller.volume_initialized
                     THEN Some(glm_controller.volume)
                   ELSE None) ]_vars

\* C27 (amended): the effective volume a dispatched AdjustVolume uses is
\* none whenever the volume is not initialized, pending or not; with the
\* volume initialized it is pending_volume if that is set and the confirmed
\* volume otherwise.  A SetVolume dispatched before the first echo sets
\* pending_volume, and a later AdjustVolume still takes the native way.
C27_InitializedFirst ==
  [][ /\ ev'.op \in AdjustOps =>
           AdjustUses(IF ~glm_controller.volume_initialized
                        THEN None
                      ELSE IF glm_controller.pending_volume # None
                        THEN glm_controller.pending_volume
                      ELSE Some(glm_controller.volume))
      /\ ev'.op = "set_volume" =>
           glm_controller'.pending_volume
             = Some(Clamp(Head(queue).action.arg)) ]_vars

\* C27 happens: a SetVolume was dispatched before the first echo, and an
\* AdjustVolume dispatched after it put a native message on the channel.
C27_Witness ==
  /\ ev.op = "adjust_native"
  /\ ev.sent # << >>
  /\ ~glm_controller.volume_initialized
  /\ glm_controller.pending_volume # None

\* C27 happens: with the volume initialized and a value pending, an
\* AdjustVolume was computed from the pending value.
C27_WitnessPending ==
  /\ ev.op = "adjust_volume"
  /\ glm_controller.volume_initialized
  /\ glm_controller.pending_volume # None
  /\ glm_controller.pending_volume # Some(glm_controller.volume)
  /\ glm.volume_requests # << >>
  /\ Len(glm.volume_requests) = 2

(* ==================== the pending volume and the channel ================= *)
\* C28: a pending volume is the value of the absolute-volume message sent
\* last, with no volume echo processed since: a dispatch that sets
\* pending_volume has put that value on the channel, a message put on the
\* channel by a dispatch is the pending value, and the processing of a
\* volume echo leaves nothing pending.
C28_PendingIsLastSent ==
  /\ ev.op \in {"set_volume", "adjust_volume"} =>
       /\ glm_controller.pending_volume # None
       /\ ev.sent
            = << <<GLM_VOLUME_ABS, glm_controller.pending_volume[1]>> >>
  /\ (ev.op = "update_from_midi" /\ ev.cc = GLM_VOLUME_ABS) =>
       glm_controller.pending_volume = None

(* ================== adjustments against earlier echoes =================== *)
\* The last element of a sequence that is not empty.
Last(s) == s[Len(s)]

\* C29: with the volume confirmed, while a value sent to the application has not been echoed, a
\* dispatched AdjustVolume(d) is computed from the value sent last, so that
\* adjustments add up whatever echoes of earlier requests were processed in
\* between: the message it sends carries clamp(last sent + d).  (Taken over
\* the dispatches at which pending_volume is not a value whose write failed.)
C29_AccumulatesOnLastSent ==
  [][ ( /\ ev'.op \in AdjustOps
        /\ glm_controller.volume_initialized
        /\ glm.volume_requests # << >>
        /\ glm_controller.pending_volume
             \in {None, Some(Last(glm.volume_requests))}
        /\ ev'.sent # << >> )
      => ev'.sent = << <<GLM_VOLUME_ABS,
                         Clamp(Last(glm.volume_requests)
                                 + Head(queue).action.arg)>> >> ]_vars

(* ================ adjustments before the volume is known ================= *)
\* The consumer hands an AdjustVolume to its handler while the volume is
\* not initialized.
AdjustUninitialized ==
  /\ ev'.kind = "AdjustVolume"
  /\ ev'.op \in AdjustOps
  /\ ~glm_controller.volume_initialized

\* The native message of an adjustment by delta.
NativeMessage(delta) ==
  <<IF delta > 0 THEN GLM_VOL_UP_CC ELSE GLM_VOL_DOWN_CC, 127>>

FallbackTaken ==
  /\ ev'.op = "rx_pattern"
  /\ ev'.read \notin {"on", "off"}

\* The fallback's toggle heuristic: power is set for a burst within the
\* start-up window of the previous one, and flipped otherwise.
FallbackToggles ==
  LET startup == /\ daemon.last_pattern_time # None
                 /\ now - daemon.last_pattern_time[1] < POWER_STARTUP_WINDOW
  IN /\ glm_controller'.power = IF startup THEN TRUE ELSE ~glm_controller.power
     /\ daemon'.last_pattern_time = IF startup THEN None ELSE Some(now)

C32_AdaptersOnlyEnqueue ==
  [][ ev'.op \in PutOps =>
        /\ glm_controller' = glm_controller
        /\ \/ Entries(queue') = Entries(queue)
           \/ /\ Len(queue') = Len(queue) + 1
              /\ Entries(SubSeq(queue', 1, Len(queue))) = Entries(queue)
        /\ UNCHANGED <<consumer, reader, main, glm>> ]_vars

(* =============== the reader against the dispatcher's threads ============= *)
\* The reader's loop body step by step, against power and volume commands
\* of the dispatcher and the clock.
NextRace ==
  \/ Tick
  \/ MidiBurst
  \/ BurstAppend
  \/ BurstFilter
  \/ DetectRead
  \/ DetectWrite
  \/ MidiUpdate
  \/ Enqueue(SetPower(None))
  \/ Enqueue(SetVolume(200))
  \/ ConsumerGet
  \/ ConsumerPrecheck
  \/ ConsumerSetState
  \/ ConsumerEnd

SpecRace == InitRunning /\ [][NextRace]_vars

\* C39: the pattern detector writes power only when power commands are
\* admitted (no transition started less than POWER_TOTAL_LOCKOUT ago), and
\* the state it writes was not read before a transition that has started
\* since: no transition starts between its admission check and its write.
C39_DetectorOutsideLockout ==
  [][ ( /\ ev'.op \in {"rx_pattern", "rx_write"}
        /\ ev'.read \in {"on", "off"} )
      => can_accept_power_command(glm_controller, now).allowed ]_vars

\* C33: writes of controller fields are made under the controller's mutex,
\* so that a thread's read of power followed by its write of power is not
\* cut by another thread's write: while the reader is between its read of
\* old_power and its write of power, power does not change.
C33_PowerWritesExclusive ==
  [][ (reader.pc = "get_state" /\ reader'.pc = "get_state")
      => glm_controller'.power = glm_controller.power ]_vars

\* C40: once the dispatcher has sent an absolute volume and cleared the
\* pattern buffer, no identifier received before takes part in a signature
\* match: the identifiers of every match the reader finds are those the
\* buffer holds at that moment.
C40_ClearedStaysCleared ==
  [][ ( /\ reader.pc = "filter"
        /\ ev'.op \in {"rx_pattern", "rx_pattern_ignored", "rx_get_state"} )
      => daemon.rx_seq = Append(reader.seq, <<now, reader.cc>>) ]_vars

(* ====================== the cadence of the watchdog ====================== *)
\* C35: between two consecutive health checks the watchdog loop sleeps one
\* polling interval, after a restart attempt too, whether it succeeded or
\* failed: every health check but the first starts after that sleep.
C35_SleepBetweenChecks ==
  [][ ev'.op \in {"watchdog_check", "watchdog_restart"}
      => glm_manager.slept ]_vars

(* ==================== errors in the power handler ======================== *)
\* The steps at which a dispatched command fails: the write to the port
\* fails, the actuator raises, or the session pre-check fails or raises.
FailedDispatch ==
  \/ ev.op \in {"set_volume", "adjust_volume", "adjust_native", "toggle"}
       /\ ev.sent = << >>
  \/ ev.op = "power_set_state" /\ ~ev.success
  \/ ev.op = "power_end" /\ ~ev.success
  \/ ev.op = "power_abandoned"

\* C34: an exception raised while a command is dispatched does not end the
\* consumer's loop: the loop is left on the sentinel only (none is put
\* here), after a failed dispatch the consumer is back at queue.get() or
\* goes on in its handler, and at queue.get() it takes the next command
\* whenever the queue holds one.
C34_ErrorsKeepLoop ==
  /\ consumer.pc # "exited"
  /\ FailedDispatch => consumer.pc \in {"idle", "sleep"}
  /\ (consumer.pc = "idle" /\ queue # << >>) => ENABLED ConsumerGet

\* C34 happens: the session pre-check of a power command raised while
\* another command was waiting, and the consumer is back at queue.get().
C34_Witness ==
  /\ ev.op = "power_abandoned"
  /\ consumer.pc = "idle"
  /\ queue # << >>

\* C34 happens: the command after a failed one was handled (the write of
\* the first failed and left its pending value, the second was sent).
C34_WitnessNext ==
  /\ ev.op = "toggle"
  /\ ev.cmd = 2
  /\ ev.sent # << >>
  /\ glm_controller.pending_volume # None
  /\ glm.volume_requests = << >>

\* C37: from start_power_transition to the matching end_power_transition
\* the controller's flag of an active transition stays true, however long
\* the handler takes and whatever admission queries are made meanwhile.
C37_ActiveUntilEnd ==
  consumer.pc \in {"precheck", "set_state", "sleep"}
    => glm_controller.power_settling

\* C38: every start_power_transition of the dispatcher is followed by its
\* end_power_transition on every path through the handler: once the handler
\* has returned, no transition is left open.
C38_NoAbandonedTransition ==
  consumer.pc = "idle" => glm_controller.power_target = None

(* ===================== _wait_for_window_stable ========================== *)
\* GlmManagerConfig.stable_handle_count: equal polls needed for stability.
stable_handle_count == 4

\* enforce_max_seconds in units of enforce_poll_interval: the number of
\* polls that fit before the deadline.
MaxPolls == 6

\* Window handles the application's main window may have.
MaxHandle == 2

\* The loop without the restart of the count on a different handle.
WaitPollNoRestart ==
  /\ glm_manager.wait.pc = "poll"
  /\ Len(glm_manager.wait.seen) < MaxPolls
  /\ \E outcome \in
          {[kind |-> "exited", hwnd |-> 0], [kind |-> "raised", hwnd |-> 0]}
          \cup {[kind |-> "handle", hwnd |-> h] : h \in 0..MaxHandle} :
       LET w == glm_manager.wait
           seen == Append(w.seen, outcome)
           hwnd == outcome.hwnd
           count == w.stable_count + 1
           polled ==
             CASE outcome.kind = "raised" -> [w EXCEPT !.seen = seen]
               [] outcome.kind = "handle" /\ hwnd = 0 ->
                    [w EXCEPT !.seen = seen, !.last_handle = 0,
                              !.stable_count = 0]
               [] OTHER ->
                    [w EXCEPT !.seen = seen, !.last_handle = hwnd,
                              !.stable_count = count]
           after ==
             CASE outcome.kind = "exited" ->
                    [w EXCEPT !.seen = seen, !.pc = "done", !.result = 0]
               [] outcome.kind = "handle" /\ hwnd # 0
                  /\ count >= stable_handle_count ->
                    [polled EXCEPT !.pc = "done", !.result = hwnd]
               [] Len(seen) >= MaxPolls ->
                    [polled EXCEPT !.pc = "done",
                                   !.result = polled.last_handle]
               [] OTHER -> polled
       IN /\ glm_manager' = [glm_manager EXCEPT !.wait = after]
          /\ ev' = [Ev("wait_poll") EXCEPT !.kind = outcome.kind,
                                           !.value = hwnd]
  /\ UNCHANGED <<glm_controller, queue, consumer, reader, daemon, main, app,
                 glm, inputs>>

\* One pass of the loop of _wait_for_window_stable, from the test of the
\* deadline to the sleep, and the return after the loop once the deadline
\* has passed.  A pass meets one of: the process has exited (is_running()
\* is false), is_running() or the window enumeration raises, or
\* _get_main_window_handle returns hwnd (0: no visible window).
WaitPoll ==
  /\ glm_manager.wait.pc = "poll"
  /\ Len(glm_manager.wait.seen) < MaxPolls
  /\ \E outcome \in
          {[kind |-> "exited", hwnd |-> 0], [kind |-> "raised", hwnd |-> 0]}
          \cup {[kind |-> "handle", hwnd |-> h] : h \in 0..MaxHandle} :
       LET w == glm_manager.wait
           seen == Append(w.seen, outcome)
           hwnd == outcome.hwnd
           count == IF hwnd = w.last_handle THEN w.stable_count + 1 ELSE 1
           polled ==
             CASE outcome.kind = "raised" -> [w EXCEPT !.seen = seen]
               [] outcome.kind = "handle" /\ hwnd = 0 ->
                    [w EXCEPT !.seen = seen, !.last_handle = 0,
                              !.stable_count = 0]
               [] OTHER ->
                    [w EXCEPT !.seen = seen, !.last_handle = hwnd,
                              !.stable_count = count]
           after ==
             CASE outcome.kind = "exited" ->
                    [w EXCEPT !.seen = seen, !.pc = "done", !.result = 0]
               [] outcome.kind = "handle" /\ hwnd # 0
                  /\ count >= stable_handle_count ->
                    [polled EXCEPT !.pc = "done", !.result = hwnd]
               [] Len(seen) >= MaxPolls ->
                    [polled EXCEPT !.pc = "done",
                                   !.result = polled.last_handle]
               [] OTHER -> polled
       IN /\ glm_manager' = [glm_manager EXCEPT !.wait = after]
          /\ ev' = [Ev("wait_poll") EXCEPT !.kind = outcome.kind,
                                           !.value = hwnd]
  /\ UNCHANGED <<glm_controller, queue, consumer, reader, daemon, main, app,
                 glm, inputs>>

\* _start_glm has started the process and calls _wait_for_window_stable:
\* the locals are zero and no poll was made.
InitWait ==
  \E constructed \in BOOLEAN, power \in BOOLEAN :
    /\ constructed \/ power
    /\ glm_controller =
         add_state_callback([GlmControllerInit EXCEPT !.power = power],
                            log_state_change)
    /\ queue = << >>
    /\ consumer = ConsumerIdle
    /\ reader = ReaderWait
    /\ daemon = [DaemonInit(TRUE, TRUE, constructed) EXCEPT
                   !.midi_output = "open",
                   !.watchdog = TRUE,
                   !.power_controller = constructed]
    /\ main = "running"
    /\ app = 0
    /\ glm_manager = [GlmManagerStarted(1) EXCEPT !.wait.pc = "poll"]
    /\ glm = GlmProcess(1, FALSE)
    /\ inputs = 0
    /\ ev = Ev("init_done")

SpecWait == InitWait /\ [][WaitPoll]_vars

\* The polls so far, in order: the passes in which the process was found
\* running and its window was looked for.
Polled(seen) == SelectSeq(seen, LAMBDA o : o.kind # "exited")

\* The polls so far that returned a handle or found no window, in order:
\* the polls in which nothing raised.
Returned(seen) == SelectSeq(seen, LAMBDA o : o.kind = "handle")

\* s ends with n entries that are all the handle h.
EndsWith(s, n, h) ==
  /\ Len(s) >= n
  /\ \A i \in (Len(s) - n + 1)..Len(s) : s[i].kind = "handle" /\ s[i].hwnd = h

\* The handle of the last entry of s, 0 when s is empty or the entry is no
\* handle.
LastHandle(s) ==
  IF s # << >> /\ s[Len(s)].kind = "handle" THEN s[Len(s)].hwnd ELSE 0

\* What _wait_for_window_stable returned agrees with the polls in s.
WaitResult(s) ==
  LET w == glm_manager.wait
      exited == w.seen # << >> /\ w.seen[Len(w.seen)].kind = "exited"
  IN w.pc = "done" =>
       CASE exited -> w.result = 0
         [] Len(w.seen) < MaxPolls ->
              w.result # 0 /\ EndsWith(s, stable_handle_count, w.result)
         [] OTHER -> w.result = LastHandle(s)

\* The number of equal non-zero handles s ends with.
RunAtEnd(s) ==
  LET h == LastHandle(s)
  IN IF h = 0 THEN 0
     ELSE CHOOSE n \in 1..Len(s) : EndsWith(s, n, h) /\ ~EndsWith(s, n + 1, h)

\* The count restarts at 1 on a different handle and falls to 0 when no
\* window is found: it is the length of the run of equal handles s ends with.
WaitCounts(s) ==
  glm_manager.wait.pc # "idle" =>
    /\ glm_manager.wait.stable_count = RunAtEnd(s)
    /\ glm_manager.wait.last_handle = LastHandle(s)

C36_WitnessRaised ==
  /\ glm_manager.wait.pc = "done"
  /\ Len(glm_manager.wait.seen) = MaxPolls
  /\ glm_manager.wait.seen[MaxPolls].kind = "raised"
  /\ glm_manager.wait.result # 0

====
